---- MODULE Spec2Model ----
(***************************************************************************)
(* Model of src/src/agents/image_extractor.py: the response parser, the    *)
(* two-stage classification escalation (smart_classify_document), the      *)
(* extraction quality validator, the bounded-retry extraction loop         *)
(* (extract_with_retry), the audit writer (log_audit_event), the cost      *)
(* estimate (calculate_processing_costs), the per-document pipeline        *)
(* (process_document_enhanced_with_retry), the result store                *)
(* (convert_floats_to_decimal, store_document_results_enhanced) and the    *)
(* entry point (lambda_handler), alone and as two invocations at once.     *)
(* The last part models the cache of the FCA register collector           *)
(* (src/src/agents/fca-register-collector.py).                             *)
(*                                                                         *)
(* Decimals are exact fixed-point integers counted in units of 1/ONE.      *)
(* A Python function's outcome is a record [exc, msg, val]: exc = "none"   *)
(* when it returned val, otherwise the type of the exception it raised.    *)
(***************************************************************************)
EXTENDS Integers, Sequences, FiniteSets, TLC

\* ------------------------------------------------------------------------
\* Bounds of the model (not program constants)
\* ------------------------------------------------------------------------

\* most critical fields an extraction response carries with an empty value
MaxEmptyFields == 3
\* most non-critical fields an extraction response carries
MaxExtraFields == 1
\* cap on the upstream-call counter (the loop itself never gets there)
MaxCalls == 4
\* most records of one event
MaxRecords == 3
\* most invocations of lambda_handler in a run
MaxInvocations == 2

\* ------------------------------------------------------------------------
\* Decimal arithmetic (decimal.Decimal)
\* ------------------------------------------------------------------------

\* resolution of the fixed-point representation: 1.0 is ONE units (7 digits)
ONE == 10000000

Fin(u) == [k |-> "fin", u |-> u]
DecNaN == [k |-> "nan", u |-> 0]
DecInf == [k |-> "inf", u |-> 0]

\* Decimal('0.x') literals of the source, in units
Tenths(n) == Fin(n * (ONE \div 10))

\* a < b on Decimals; comparing a NaN raises decimal.InvalidOperation
DecLtRaises(a, b) == a.k = "nan" \/ b.k = "nan"
DecLt(a, b) ==
    IF a.k = "inf" THEN FALSE
    ELSE IF b.k = "inf" THEN TRUE
    ELSE a.u < b.u
DecGe(a, b) == ~DecLt(a, b)

\* ------------------------------------------------------------------------
\* Python / JSON values and outcomes
\* ------------------------------------------------------------------------

\* a JSON scalar as json.loads returns it. A number literal is u units plus a
\* residue `tail` (in {-1,0,1}) that lies below the precision of a double.
JNum(u, tail) == [t |-> "num", u |-> u, tail |-> tail, s |-> ""]
JStr(s) == [t |-> "str", u |-> 0, tail |-> 0, s |-> s]
JNull == [t |-> "null", u |-> 0, tail |-> 0, s |-> ""]
JBool == [t |-> "bool", u |-> 0, tail |-> 0, s |-> "True"]
JNaNLit == [t |-> "nan", u |-> 0, tail |-> 0, s |-> ""]
JInfLit == [t |-> "inf", u |-> 0, tail |-> 0, s |-> ""]
JList == [t |-> "list", u |-> 0, tail |-> 0, s |-> ""]

\* an error message is a sequence of string pieces (an f-string's parts)
Returned(v) == [exc |-> "none", msg |-> <<>>, val |-> v]
Raised(e, m) == [exc |-> e, msg |-> m, val |-> <<>>]

\* exception classes and `except` matching (Exception catches all of them)
Catches(handler, exc) == exc # "none" /\ (exc \in handler \/ "Exception" \in handler)

\* strings that decimal.Decimal accepts, with their value
NumericStrings == {"0.9", "NaN"}
DecimalOfString(s) ==
    IF s = "0.9" THEN Tenths(9) ELSE DecNaN

\* Decimal(str(v)) for a value v from json.loads: a float prints as its
\* shortest repr, so the sub-double residue `tail` of the literal is lost;
\* None, True, a list and a non-numeric word raise InvalidOperation.
DecimalOfStr(v) ==
    CASE v.t = "num" -> Returned(Fin(v.u))
      [] v.t = "nan" -> Returned(DecNaN)
      [] v.t = "inf" -> Returned(DecInf)
      [] v.t = "str" /\ v.s \in NumericStrings -> Returned(DecimalOfString(v.s))
      [] OTHER -> Raised("InvalidOperation", <<"ConversionSyntax">>)

\* dict.get(key, default) on a decoded JSON object (a function on its keys)
DictGet(d, key, default) == IF key \in DOMAIN d THEN d[key] ELSE default

\* json.loads(text): prose and truncated text do not decode
JsonLoads(text) ==
    IF text.shape \in {"prose", "truncated"}
    THEN Raised("JSONDecodeError", <<"Expecting value">>)
    ELSE Returned(text)
IsJsonObject(text) == text.shape = "object"

\* ------------------------------------------------------------------------
\* parse_claude_classification_response
\* ------------------------------------------------------------------------

ParserDefault(response_text) ==
    [document_type |-> JStr("OTHER"), confidence |-> Tenths(3),
     complexity_score |-> Tenths(5), raw_response |-> response_text]

\* the inner try of lines 85-93 / 96-102: convert, substitute 0.5 when out of
\* [0,1], substitute `invalid` on ValueError, TypeError or InvalidOperation
SafeScoreInvalidHalf(d, key, invalid) ==
    LET raw == DictGet(d, key, JNum(ONE \div 2, 0))
        conv == DecimalOfStr(raw)
    IN  IF conv.exc # "none" THEN Tenths(5)
        ELSE IF DecLtRaises(conv.val, Fin(0)) THEN Tenths(5)
        ELSE IF DecLt(conv.val, Fin(0)) \/ DecLt(Fin(ONE), conv.val) THEN Tenths(5)
        ELSE conv.val
SafeScoreUnchecked(d, key, invalid) ==
    LET raw == DictGet(d, key, JNum(ONE \div 2, 0))
        conv == DecimalOfStr(raw)
    IN  IF conv.exc # "none" THEN invalid ELSE conv.val
SafeScoreClamps(d, key, invalid) ==
    LET raw == DictGet(d, key, JNum(ONE \div 2, 0))
        conv == DecimalOfStr(raw)
    IN  IF conv.exc # "none" THEN invalid
        ELSE IF DecLtRaises(conv.val, Fin(0)) THEN invalid
        ELSE IF DecLt(conv.val, Fin(0)) THEN Fin(0)
        ELSE IF DecLt(Fin(ONE), conv.val) THEN Fin(ONE)
        ELSE conv.val
SafeScoreAbsentInvalid(d, key, invalid) ==
    LET raw == DictGet(d, key, JNull)
        conv == DecimalOfStr(raw)
    IN  IF conv.exc # "none" THEN invalid
        ELSE IF DecLtRaises(conv.val, Fin(0)) THEN invalid
        ELSE IF DecLt(conv.val, Fin(0)) \/ DecLt(Fin(ONE), conv.val) THEN Tenths(5)
        ELSE conv.val
SafeScore(d, key, invalid) ==
    LET raw == DictGet(d, key, JNum(ONE \div 2, 0))
        conv == DecimalOfStr(raw)
    IN  IF conv.exc # "none" THEN invalid
        ELSE IF DecLtRaises(conv.val, Fin(0)) THEN invalid
        ELSE IF DecLt(conv.val, Fin(0)) \/ DecLt(Fin(ONE), conv.val) THEN Tenths(5)
        ELSE conv.val

\* the body of the outer try (lines 82-109)
ParseBody(response_text) ==
    LET loaded == JsonLoads(response_text)
    IN  IF loaded.exc # "none" THEN loaded
        ELSE IF ~IsJsonObject(response_text)
        THEN Raised("AttributeError", <<"object has no attribute 'get'">>)
        ELSE LET d == response_text.obj
             IN  Returned([document_type |-> DictGet(d, "document_type", JStr("OTHER")),
                           confidence |-> SafeScore(d, "confidence", Tenths(3)),
                           complexity_score |-> SafeScore(d, "complexity_score", Tenths(5)),
                           raw_response |-> response_text])

\* the handlers of the outer try, in source order
ParserHandlersNoCatchAll == <<{"JSONDecodeError"}, {"ValueError", "TypeError"}>>
ParserHandlers == <<{"JSONDecodeError"}, {"Exception"}>>

parse_claude_classification_response(response_text) ==
    LET body == ParseBody(response_text)
    IN  IF body.exc = "none" THEN body
        ELSE IF Catches(ParserHandlers[1], body.exc) THEN Returned(ParserDefault(response_text))
        ELSE IF Catches(ParserHandlers[2], body.exc) THEN Returned(ParserDefault(response_text))
        ELSE body

\* lines 145-161: convert, clamp to [0,1], substitute 0.5 on ValueError,
\* TypeError or InvalidOperation (the comparison of a NaN raises the last)
ValidatorHandler == {"ValueError", "TypeError", "InvalidOperation"}
validate_confidence_score(raw_confidence) ==
    LET conv == DecimalOfStr(raw_confidence)
        body == IF conv.exc # "none" THEN conv
                ELSE IF DecLtRaises(conv.val, Fin(0))
                THEN Raised("InvalidOperation", <<"InvalidOperation">>)
                ELSE IF DecLt(conv.val, Fin(0)) THEN Returned(Fin(0))
                ELSE IF DecLt(Fin(ONE), conv.val) THEN Returned(Fin(ONE))
                ELSE Returned(conv.val)
    IN  IF Catches(ValidatorHandler, body.exc) THEN Returned(Tenths(5)) ELSE body

\* ------------------------------------------------------------------------
\* Model responses (inputs)
\* ------------------------------------------------------------------------

\* a JSON object: a function from the keys it has to their values
ObjectsOver(keys, vals) == UNION {[ks -> vals] : ks \in SUBSET keys}

NoObject == [k \in {} |-> JNull]
Text(shape, obj) == [shape |-> shape, obj |-> obj]

DocumentTypeValues ==
    {JStr("LETTER_OF_CREDIT"), JStr("COMMERCIAL_INVOICE"), JStr("BILL_OF_LADING"), JStr("OTHER")}

\* raw confidence values a classification response may carry:
\* -0.2, 0, 0.3, 0.79, 0.7999999, 0.8, 0.8000001, 0.95, 1, 1.5, a literal
\* 0.8 less a residue below double precision, and non-numbers
ConfidenceValues ==
    {JNum(u, 0) : u \in {0 - 2 * (ONE \div 10), 0, 3 * (ONE \div 10), 79 * (ONE \div 100),
                         8 * (ONE \div 10) - 1, 8 * (ONE \div 10), 8 * (ONE \div 10) + 1,
                         95 * (ONE \div 100), ONE, 15 * (ONE \div 10)}}
    \cup {JNum(8 * (ONE \div 10), 0 - 1)}
    \cup {JStr("very high"), JStr("0.9"), JStr("NaN"), JNull, JBool, JNaNLit, JInfLit, JList}

ComplexityValues ==
    {JNum(7 * (ONE \div 10), 0), JNum(15 * (ONE \div 10), 0), JStr("high")}

ClassificationObjects ==
    {o \in ObjectsOver({"document_type", "confidence", "complexity_score"},
                       DocumentTypeValues \cup ConfidenceValues \cup ComplexityValues) :
        /\ "document_type" \in DOMAIN o => o["document_type"] \in DocumentTypeValues
        /\ "confidence" \in DOMAIN o => o["confidence"] \in ConfidenceValues
        /\ "complexity_score" \in DOMAIN o => o["complexity_score"] \in ComplexityValues}

\* texts that are no JSON object: prose, a truncated object, an array, a number
TruncatedObject == [k \in {"document_type"} |-> JStr("LETTER_OF_CREDIT")]
NonObjectTexts ==
    {Text("prose", NoObject), Text("truncated", TruncatedObject),
     Text("array", NoObject), Text("number", NoObject), Text("null", NoObject)}

ClassificationTexts == NonObjectTexts \cup {Text("object", o) : o \in ClassificationObjects}

\* ------------------------------------------------------------------------
\* State
\* ------------------------------------------------------------------------

VARIABLES
    pc,                 \* position of the run
    p_text,             \* parser check: the response text handed to the parser
    p_result,           \* parser check: the parser's outcome
    classify_calls,     \* model ids passed to classify_with_bedrock, in order
    stage1_result,      \* outcome of the stage-1 classify_with_bedrock call
    stage2_result,      \* outcome of the stage-2 classify_with_bedrock call
    classification,     \* outcome of smart_classify_document
    doc_type,      \* extract_with_retry: the document type it is given
    attempt,            \* extract_with_retry: the loop variable
    extract_calls,      \* number of calls of extract_with_specialized_prompt
    endpoint_calls,     \* number of extraction calls of the inference endpoint
    pauses,             \* number of time.sleep pauses
    attempts,           \* per attempt started: what the call and the validator did
    extraction,         \* outcome of extract_with_retry
    audit_sink,         \* whether writes to the audit table can fail in this run
    audit_trail,        \* the events the audit table holds, in order
    audit_failures,     \* number of audit writes that failed and were swallowed
    fetched,            \* outcome of the S3 download
    processed,          \* outcome of process_document_enhanced_with_retry
    converse_calls,     \* the bedrock.converse calls made, in order, and how each ended
    validated,          \* outcome of validate_confidence_score on the raw confidence
    records,            \* lambda_handler: event['Records'] of the invocation
    record_index,       \* lambda_handler: position of the loop over the Records
    document_id,        \* lambda_handler: the id generated for the current record
    documents_table,    \* the items of the documents table, by document_id
    put_items,          \* the calls of documents_table.put_item, in order
    stored,             \* outcome of store_document_results_enhanced for the record
    response,           \* what lambda_handler returned
    invocations,        \* number of lambda_handler invocations started
    parked,             \* the locals of the invocation that is not running now
    alone,              \* what each document's invocation gave when it ran alone
    clock,              \* FCA collector: the time, in hours
    cache_items,        \* FCA collector: the items of the cache table, by key
    collection,         \* FCA collector: the collection that is running, if any
    history             \* FCA collector: what each finished run did and returned

parseVars == <<p_text, p_result>>
classVars == <<classify_calls, stage1_result, stage2_result, classification>>
retryVars == <<doc_type, attempt, extract_calls, endpoint_calls, pauses, attempts, extraction>>
auditVars == <<audit_sink, audit_trail, audit_failures>>
pipeVars == <<fetched, processed>>
\* state that lies outside the processing of one document
handlerVars == <<records, record_index, document_id, documents_table, put_items, stored,
                 response, invocations>>
workerVars == <<parked, alone>>
collectorVars == <<clock, cache_items, collection, history>>
outerVars == <<validated, handlerVars, workerVars, collectorVars>>
coreVars == <<pc, parseVars, classVars, retryVars, pipeVars, converse_calls, outerVars>>
vars == <<pc, parseVars, classVars, retryVars, auditVars, pipeVars, converse_calls, outerVars>>
\* everything but the position of the run and the state of the FCA collector
coreVarsOfDocument == <<parseVars, classVars, retryVars, auditVars, pipeVars, converse_calls,
                        validated, handlerVars, workerVars>>

NotCalled == Raised("NotCalled", <<>>)

IdleParse == p_text = Text("prose", NoObject) /\ p_result = NotCalled
IdleClass ==
    /\ classify_calls = <<>>
    /\ stage1_result = NotCalled
    /\ stage2_result = NotCalled
    /\ classification = NotCalled
IdleRetry ==
    /\ doc_type = JStr("OTHER")
    /\ attempt = 0
    /\ extract_calls = 0
    /\ endpoint_calls = 0
    /\ pauses = 0
    /\ attempts = <<>>
    /\ extraction = NotCalled
IdleAudit == audit_trail = <<>> /\ audit_failures = 0
ReliableAudit == audit_sink = "reliable" /\ IdleAudit
IdlePipe == fetched = NotCalled /\ processed = NotCalled /\ converse_calls = <<>>
IdleHandler ==
    /\ records = <<>>
    /\ record_index = 0
    /\ document_id = <<>>
    /\ documents_table = <<>>
    /\ put_items = <<>>
    /\ stored = NotCalled
    /\ response = NotCalled
    /\ invocations = 0
IdleWorkers == parked = <<>> /\ alone = <<>>
IdleCollector == clock = 0 /\ cache_items = <<>> /\ collection = <<>> /\ history = <<>>
IdleOuter == validated = NotCalled /\ IdleHandler /\ IdleWorkers /\ IdleCollector

\* ------------------------------------------------------------------------
\* log_audit_event
\* ------------------------------------------------------------------------

\* an audit record: its event_type and, where the event data has one, the
\* attempt number (0 where it has none)
Event(event_type, attempt_number) ==
    [event_type |-> event_type, attempt_number |-> attempt_number]

\* what audit_table.put_item does during one step of the run: it stores the
\* record, or fails with a ClientError (throttling) or a TypeError
\* (a value the table cannot serialise)
SinkOutcomes(sink) ==
    IF sink = "reliable" THEN {"ok"} ELSE {"ok", "ClientError", "TypeError"}

\* line 740: the handler around the write
AuditHandlerNarrow == {"ClientError"}
AuditHandler == {"Exception"}

\* lines 716-743: one call; `stored` is what the table gains, `failed`
\* counts the failure it printed and swallowed
log_audit_event(outcome, event) ==
    IF outcome = "ok" THEN [exc |-> "none", stored |-> <<event>>, failed |-> 0]
    ELSE IF Catches(AuditHandler, outcome) THEN [exc |-> "none", stored |-> <<>>, failed |-> 1]
    ELSE [exc |-> outcome, stored |-> <<>>, failed |-> 0]

\* the calls of one step, all meeting the same outcome of the table: the
\* exception the first call lets out (if any), else what they stored
LogAll(outcome, events) ==
    IF events = <<>> THEN [exc |-> "none", stored |-> <<>>, failed |-> 0]
    ELSE LET first == log_audit_event(outcome, events[1])
         IN  IF first.exc # "none" THEN first
             ELSE [exc |-> "none",
                   stored |-> IF first.stored = <<>> THEN <<>> ELSE events,
                   failed |-> first.failed * Len(events)]

\* the effect of a step's audit calls on the table
Audited(log) ==
    /\ audit_trail' = audit_trail \o log.stored
    /\ audit_failures' = audit_failures + log.failed
    /\ UNCHANGED audit_sink

\* ------------------------------------------------------------------------
\* The parser applied to every response text
\* ------------------------------------------------------------------------

InitParse ==
    /\ pc = "parse"
    /\ p_text \in ClassificationTexts
    /\ p_result = NotCalled
    /\ IdleClass
    /\ IdleRetry
    /\ ReliableAudit
    /\ IdlePipe
    /\ IdleOuter

Parse ==
    /\ pc = "parse"
    /\ p_result' = parse_claude_classification_response(p_text)
    /\ pc' = "parsed"
    /\ UNCHANGED <<p_text, classVars, retryVars, auditVars, pipeVars, converse_calls, outerVars>>

\* validate_confidence_score applied to the raw confidence the response carries
Validate ==
    /\ pc = "parsed"
    /\ validated = NotCalled
    /\ IsJsonObject(p_text)
    /\ "confidence" \in DOMAIN p_text.obj
    /\ validated' = validate_confidence_score(p_text.obj["confidence"])
    /\ UNCHANGED <<pc, parseVars, classVars, retryVars, auditVars, pipeVars, converse_calls,
                   handlerVars, workerVars, collectorVars>>

NextParse == Parse \/ Validate
SpecParse == InitParse /\ [][NextParse]_vars

\* ------------------------------------------------------------------------
\* classify_with_bedrock and smart_classify_document
\* ------------------------------------------------------------------------

\* the two tiers the other way round: the expensive model is asked first
ClassificationModelsSwapped ==
    [cheap |-> "anthropic.claude-3-sonnet-20240229-v1:0",
     expensive |-> "anthropic.claude-3-haiku-20240307-v1:0"]
CLASSIFICATION_MODELS ==
    [cheap |-> "anthropic.claude-3-haiku-20240307-v1:0",
     expensive |-> "anthropic.claude-3-sonnet-20240229-v1:0"]

\* a threshold as low as the parser's default confidence
ThresholdAtDefault == Tenths(5)
CLASSIFICATION_CONFIDENCE_THRESHOLD == Tenths(8)

\* what one bedrock.converse call does: answer with a text, fail with a
\* ClientError, or fail with another botocore error (a read timeout)
Answer(text) == [kind |-> "ok", msg |-> "", text |-> text]
Failure(kind, msg, text) == [kind |-> kind, msg |-> msg, text |-> text]
EndpointFailures(text) ==
    {Failure("ClientError", "ThrottlingException", text),
     Failure("ClientError", "ModelTimeoutException", text),
     Failure("ReadTimeoutError", "Read timed out", text)}
ClassificationEndpoint ==
    EndpointFailures(Text("prose", NoObject)) \cup {Answer(t) : t \in ClassificationTexts}

\* lines 235-257 and 294-316: the bedrock.converse calls one invocation of an
\* adapter makes for the reply it gets: a single call, in no loop
AdapterCallsRetrying(model_id, reply) ==
    IF reply.kind = "ok"
    THEN <<[model_id |-> model_id, kind |-> reply.kind, msg |-> reply.msg]>>
    ELSE <<[model_id |-> model_id, kind |-> reply.kind, msg |-> reply.msg],
           [model_id |-> model_id, kind |-> reply.kind, msg |-> reply.msg]>>
AdapterCalls(model_id, reply) ==
    <<[model_id |-> model_id, kind |-> reply.kind, msg |-> reply.msg]>>

\* lines 223-276: one endpoint call, no retry; a ClientError is re-raised as
\* Exception(error_msg), any other error propagates as it is
classify_with_bedrock(model_id, reply) ==
    IF reply.kind = "ok" THEN parse_claude_classification_response(reply.text)
    ELSE IF reply.kind = "ClientError"
    THEN Raised("Exception", <<"Bedrock classification failed: ", reply.msg>>)
    ELSE Raised(reply.kind, <<reply.msg>>)

\* line 183: the cheap result is kept when its confidence reaches the threshold
KeepsStage1Strict(confidence) == DecLt(CLASSIFICATION_CONFIDENCE_THRESHOLD, confidence)
KeepsStage1Approx(confidence) ==
    DecGe(Fin(confidence.u + 1), CLASSIFICATION_CONFIDENCE_THRESHOLD)
KeepsStage1(confidence) == DecGe(confidence, CLASSIFICATION_CONFIDENCE_THRESHOLD)

\* lines 192-194 and 219-221: the result with the tier recorded on it
WithTier(result, model_used, escalated) ==
    [document_type |-> result.document_type,
     confidence |-> result.confidence,
     complexity_score |-> result.complexity_score,
     raw_response |-> result.raw_response,
     model_used |-> model_used,
     escalated |-> escalated]

InitClassify ==
    /\ pc = "stage1"
    /\ IdleParse
    /\ IdleClass
    /\ IdleRetry
    /\ ReliableAudit
    /\ IdlePipe
    /\ IdleOuter

\* lines 229, 262 and 275: the audit events of one classify_with_bedrock call
ClassifyAdapterEvents(reply) ==
    <<Event("BEDROCK_CLASSIFICATION_STARTED", 0)>>
    \o (IF reply.kind = "ok" THEN <<Event("BEDROCK_CLASSIFICATION_COMPLETED", 0)>>
        ELSE IF reply.kind = "ClientError" THEN <<Event("BEDROCK_CLASSIFICATION_FAILED", 0)>>
        ELSE <<>>)

\* lines 169 and 184: the audit events of the stage-1 step
Stage1Events(reply, r) ==
    <<Event("CLASSIFICATION_STAGE1_STARTED", 0)>>
    \o ClassifyAdapterEvents(reply)
    \o (IF r.exc = "none" /\ KeepsStage1(r.val.confidence)
        THEN <<Event("CLASSIFICATION_COMPLETED", 0)>> ELSE <<>>)

\* lines 197 and 211: the audit events of the stage-2 step
Stage2Events(reply, r) ==
    <<Event("CLASSIFICATION_ESCALATED", 0)>>
    \o ClassifyAdapterEvents(reply)
    \o (IF r.exc = "none" THEN <<Event("CLASSIFICATION_COMPLETED", 0)>> ELSE <<>>)

\* an exception that log_audit_event let out leaves the function it was
\* called from
AuditError(exc) == Raised(exc, <<"audit write failed">>)

\* lines 168-194: the stage-1 call and the escalation decision
Stage1Core(reply, outcome) ==
    /\ pc = "stage1"
    /\ LET r == classify_with_bedrock(CLASSIFICATION_MODELS.cheap, reply)
           log == LogAll(outcome, Stage1Events(reply, r))
       IN  IF log.exc # "none"
           THEN /\ pc' = "raised"
                /\ classification' = AuditError(log.exc)
                /\ UNCHANGED <<classify_calls, stage1_result, converse_calls>>
           ELSE /\ classify_calls' = Append(classify_calls, CLASSIFICATION_MODELS.cheap)
                /\ converse_calls' =
                      converse_calls \o AdapterCalls(CLASSIFICATION_MODELS.cheap, reply)
                /\ stage1_result' = r
                /\ IF r.exc # "none"
                   THEN pc' = "raised" /\ classification' = r
                   ELSE IF KeepsStage1(r.val.confidence)
                   THEN /\ pc' = "classified"
                        /\ classification' =
                             Returned(WithTier(r.val, CLASSIFICATION_MODELS.cheap, FALSE))
                   ELSE pc' = "stage2" /\ UNCHANGED classification
    /\ UNCHANGED <<stage2_result, parseVars, retryVars, pipeVars, outerVars>>
Stage1(reply, outcome) ==
    /\ Stage1Core(reply, outcome)
    /\ Audited(LogAll(outcome,
                      Stage1Events(reply, classify_with_bedrock(CLASSIFICATION_MODELS.cheap, reply))))

\* where the function is after the stage-2 call returned (lines 211-221)
AfterStage2Loops(confidence) == IF KeepsStage1(confidence) THEN "classified" ELSE "stage2"
AfterStage2(confidence) == "classified"

\* the result the function returns after stage 2 (lines 219-221)
Stage2Return(stage2) == WithTier(stage2, CLASSIFICATION_MODELS.expensive, TRUE)

\* lines 196-221: the stage-2 call; the function returns whatever it answers
Stage2Core(reply, outcome) ==
    /\ pc = "stage2"
    /\ Len(classify_calls) < MaxCalls
    /\ LET r == classify_with_bedrock(CLASSIFICATION_MODELS.expensive, reply)
           log == LogAll(outcome, Stage2Events(reply, r))
       IN  IF log.exc # "none"
           THEN /\ pc' = "raised"
                /\ classification' = AuditError(log.exc)
                /\ UNCHANGED <<classify_calls, stage2_result, converse_calls>>
           ELSE /\ classify_calls' = Append(classify_calls, CLASSIFICATION_MODELS.expensive)
                /\ converse_calls' =
                      converse_calls \o AdapterCalls(CLASSIFICATION_MODELS.expensive, reply)
                /\ stage2_result' = r
                /\ IF r.exc # "none"
                   THEN pc' = "raised" /\ classification' = r
                   ELSE /\ pc' = AfterStage2(r.val.confidence)
                        /\ classification' =
                             IF pc' = "classified"
                             THEN Returned(Stage2Return(r.val))
                             ELSE classification
    /\ UNCHANGED <<stage1_result, parseVars, retryVars, pipeVars, outerVars>>
Stage2(reply, outcome) ==
    /\ Stage2Core(reply, outcome)
    /\ Audited(LogAll(outcome,
                      Stage2Events(reply, classify_with_bedrock(CLASSIFICATION_MODELS.expensive, reply))))

NextClassify ==
    \/ \E reply \in ClassificationEndpoint, outcome \in SinkOutcomes(audit_sink) :
          Stage1(reply, outcome)
    \/ \E reply \in ClassificationEndpoint, outcome \in SinkOutcomes(audit_sink) :
          Stage2(reply, outcome)
SpecClassify == InitClassify /\ [][NextClassify]_vars

\* ------------------------------------------------------------------------
\* Extraction responses (inputs)
\* ------------------------------------------------------------------------

\* lines 540-555: the critical fields of a document type, OTHER's for unknown types
CriticalFieldsMap(document_type) ==
    CASE document_type = JStr("LETTER_OF_CREDIT") ->
           <<"lc_number", "beneficiary", "applicant", "credit_amount", "expiry_date">>
      [] document_type = JStr("COMMERCIAL_INVOICE") ->
           <<"invoice_number", "seller", "buyer", "total_amount", "invoice_date">>
      [] document_type = JStr("BILL_OF_LADING") ->
           <<"bl_number", "shipper", "consignee", "vessel_name", "cargo_description">>
      [] OTHER -> <<"document_reference", "date", "parties">>
get_critical_fields_for_document_type(document_type) == CriticalFieldsMap(document_type)

Range(f) == {f[x] : x \in DOMAIN f}
Min(a, b) == IF a < b THEN a ELSE b

\* values a model gives a field it could not read
EmptyValues == <<JStr(""), JNull, JStr("null"), JNum(0, 0)>>
ExtraNames == <<"incomplete", "remarks", "page_count">>

\* a dict of extracted fields: the first `filled` critical fields carry a
\* value, the next `empty` ones an empty value, plus `extra` other fields
FieldsDict(critical, filled, empty, extra) ==
    LET names == {critical[i] : i \in 1..(filled + empty)} \cup {ExtraNames[i] : i \in 1..extra}
        pos(n) == CHOOSE i \in 1..Len(critical) : critical[i] = n
    IN  [n \in names |->
            IF n \in Range(critical) /\ pos(n) > filled
            THEN EmptyValues[((pos(n) - filled - 1) % Len(EmptyValues)) + 1]
            ELSE JStr("value")]

FieldsFamily(document_type) ==
    LET critical == get_critical_fields_for_document_type(document_type)
    IN  UNION {{FieldsDict(critical, k, j, e) :
                    j \in 0..Min(MaxEmptyFields, Len(critical) - k),
                    e \in 0..Min(MaxExtraFields, Len(ExtraNames))} :
               k \in 0..Len(critical)}

\* a Python value for extracted_fields: a dict, None or a list
PyDict(items) == [kind |-> "dict", items |-> items]
PyNone == [kind |-> "none", items |-> NoObject]
PyList == [kind |-> "list", items |-> NoObject]

\* raw confidence values of an extraction response: 0.1, 0.29, 0.3, 0.8,
\* 1.5, a word, a NaN literal
ExtractionConfidenceValues ==
    {JNum(u, 0) : u \in {ONE \div 10, 29 * (ONE \div 100), 3 * (ONE \div 10),
                         8 * (ONE \div 10), 15 * (ONE \div 10)}}
    \cup {JStr("very high"), JNaNLit}

\* an extraction response text: its shape and, for an object, the keys it has
ExtractionText(shape, has_fields, fields, has_confidence, confidence) ==
    [shape |-> shape, has_fields |-> has_fields, fields |-> fields,
     has_confidence |-> has_confidence, confidence |-> confidence]

ExtractionProse == ExtractionText("prose", FALSE, PyNone, FALSE, JNull)
ExtractionArray == ExtractionText("array", FALSE, PyNone, FALSE, JNull)

ExtractionTexts(document_type) ==
    {ExtractionProse, ExtractionArray}
    \cup {ExtractionText("object", TRUE, PyDict(f), TRUE, c) :
             f \in FieldsFamily(document_type), c \in ExtractionConfidenceValues}
    \cup {ExtractionText("object", TRUE, PyDict(f), FALSE, JNull) :
             f \in FieldsFamily(document_type)}
    \cup {ExtractionText("object", hf, f, TRUE, JNum(8 * (ONE \div 10), 0)) :
             hf \in {TRUE}, f \in {PyNone, PyList}}
    \cup {ExtractionText("object", FALSE, PyNone, TRUE, JNum(8 * (ONE \div 10), 0))}

EndpointReplies(document_type) ==
    EndpointFailures(ExtractionProse) \cup {Answer(t) : t \in ExtractionTexts(document_type)}

\* the replies per document type (only a type with a prompt gets as far as a reply)
LetterOfCreditReplies == EndpointReplies(JStr("LETTER_OF_CREDIT"))
CommercialInvoiceReplies == EndpointReplies(JStr("COMMERCIAL_INVOICE"))
GenericReplies == EndpointReplies(JStr("OTHER"))
ExtractionEndpoint(document_type) ==
    CASE document_type = JStr("LETTER_OF_CREDIT") -> LetterOfCreditReplies
      [] document_type = JStr("COMMERCIAL_INVOICE") -> CommercialInvoiceReplies
      [] OTHER -> GenericReplies

\* ------------------------------------------------------------------------
\* extract_with_specialized_prompt
\* ------------------------------------------------------------------------

EXTRACTION_MODEL == "anthropic.claude-3-sonnet-20240229-v1:0"

\* lines 351-368: only these two types have an extraction prompt
PromptMappingWithGeneric ==
    {JStr("LETTER_OF_CREDIT"), JStr("COMMERCIAL_INVOICE"), JStr("OTHER")}
PromptMapping == {JStr("LETTER_OF_CREDIT"), JStr("COMMERCIAL_INVOICE")}
get_extraction_prompt(document_type) ==
    IF document_type \in PromptMapping
    THEN Returned(document_type)
    ELSE Raised("ValueError", <<"No prompt found for document type: ", document_type.s>>)

\* lines 328-344: the extraction response parser. Text that does not decode
\* gives the default result; a decoded non-object has no .get
\* (AttributeError) and an unconvertible confidence raises InvalidOperation,
\* and neither is caught here.
ParseExtraction(response_text) ==
    IF JsonLoads(response_text).exc # "none"
    THEN Returned([extracted_fields |-> PyDict(NoObject),
                   confidence |-> Tenths(3),
                   extraction_notes |-> <<"Response was not valid JSON">>,
                   raw_response |-> response_text])
    ELSE IF ~IsJsonObject(response_text)
    THEN Raised("AttributeError", <<"object has no attribute 'get'">>)
    ELSE LET conv == DecimalOfStr(IF response_text.has_confidence
                                  THEN response_text.confidence
                                  ELSE JNum(ONE \div 2, 0))
         IN  IF conv.exc # "none" THEN conv
             ELSE Returned([extracted_fields |-> IF response_text.has_fields
                                                 THEN response_text.fields
                                                 ELSE PyDict(NoObject),
                            confidence |-> conv.val,
                            extraction_notes |-> <<>>,
                            raw_response |-> response_text])

\* whether extract_with_specialized_prompt gets as far as the endpoint call
CallsEndpoint(document_type) == get_extraction_prompt(document_type).exc = "none"

\* lines 278-349: the prompt lookup, one endpoint call (no retry), the parse
extract_with_specialized_prompt(document_type, reply) ==
    IF ~CallsEndpoint(document_type) THEN get_extraction_prompt(document_type)
    ELSE IF reply.kind = "ok" THEN ParseExtraction(reply.text)
    ELSE IF reply.kind = "ClientError"
    THEN Raised("Exception", <<"Bedrock extraction failed: ", reply.msg>>)
    ELSE Raised(reply.kind, <<reply.msg>>)

\* ------------------------------------------------------------------------
\* validate_extraction_quality
\* ------------------------------------------------------------------------

\* line 511: not field_value or field_value in ['', 'null', None]
IsEmptyValue(v) ==
    \/ v.t = "null"
    \/ v.t = "str" /\ v.s \in {"", "null"}
    \/ v.t = "num" /\ v.u = 0 /\ v.tail = 0

EmptyCriticalFields(items, critical) ==
    Cardinality({i \in 1..Len(critical) :
                    critical[i] \notin DOMAIN items \/ IsEmptyValue(items[critical[i]])})

\* Decimal.quantize(Decimal('0.01')): round half even to hundredths
Quantize2(d) ==
    LET q == ONE \div 100
        lo == (d.u \div q) * q
        rem == d.u - lo
    IN  IF 2 * rem < q THEN Fin(lo)
        ELSE IF 2 * rem > q THEN Fin(lo + q)
        ELSE IF (lo \div q) % 2 = 0 THEN Fin(lo) ELSE Fin(lo + q)

\* line 514: more than 70% of the critical fields are empty
MostlyEmptyHalf(empty, total) == 2 * empty > total
MostlyEmpty(empty, total) == 10 * empty > 7 * total

\* line 523: the acceptance rule
IsAcceptableLenient(quality_score, issues) ==
    DecGe(quality_score, Tenths(3)) /\ Len(issues) <= 2
IsAcceptableStrict(quality_score, issues) ==
    DecLt(Tenths(4), quality_score) /\ Len(issues) <= 2
IsAcceptable(quality_score, issues) ==
    DecGe(quality_score, Tenths(4)) /\ Len(issues) <= 2

\* lines 479-532
validate_extraction_quality(extraction_result, document_type) ==
    LET extracted_fields == extraction_result.extracted_fields
        confidence == extraction_result.confidence
        low == DecLt(confidence, Tenths(3))
        count == Cardinality(DOMAIN extracted_fields.items)
        critical == get_critical_fields_for_document_type(document_type)
        empty == EmptyCriticalFields(extracted_fields.items, critical)
        mostly == MostlyEmpty(empty, Len(critical))
        issues == (IF low THEN <<"confidence_too_low">> ELSE <<>>)
                  \o (IF count = 0 THEN <<"no_fields_extracted">>
                      ELSE IF count < 3 THEN <<"too_few_fields">> ELSE <<>>)
                  \o (IF mostly THEN <<"critical_fields_mostly_empty">> ELSE <<>>)
        score == ONE - (IF low THEN 3 * (ONE \div 10) ELSE 0)
                     - (IF count = 0 THEN 4 * (ONE \div 10)
                        ELSE IF count < 3 THEN 2 * (ONE \div 10) ELSE 0)
                     - (IF mostly THEN 3 * (ONE \div 10) ELSE 0)
    IN  IF DecLtRaises(confidence, Tenths(3))
        THEN Raised("InvalidOperation", <<"InvalidOperation">>)
        ELSE IF extracted_fields.kind = "none"
        THEN Raised("TypeError", <<"object of type 'NoneType' has no len()">>)
        ELSE IF extracted_fields.kind = "list"
        THEN Raised("AttributeError", <<"'list' object has no attribute 'get'">>)
        ELSE Returned([is_acceptable |-> IsAcceptable(Fin(score), issues),
                       quality_score |-> Quantize2(Fin(score)),
                       issues |-> issues,
                       extracted_fields_count |-> count,
                       confidence |-> confidence,
                       critical_fields_filled |-> Len(critical) - empty])

\* ------------------------------------------------------------------------
\* extract_with_retry
\* ------------------------------------------------------------------------

ThreeAttempts == 2 + 1
MAX_EXTRACTION_ATTEMPTS == 2

\* Python's None and a present value
None == <<>>
Some(x) == <<x>>

\* the retry_metadata dict: the keys it has and their values
RetryMetadata(keys, attempts_made, success_on_attempt, validation_passed, issues, final_error) ==
    [keys |-> keys,
     attempts_made |-> attempts_made,
     success_on_attempt |-> success_on_attempt,
     validation_passed |-> validation_passed,
     final_attempt_issues |-> issues,
     final_error |-> final_error]

\* lines 402-407: the accepted result
SuccessResultMaxAttempts(result, n) ==
    [extracted_fields |-> result.extracted_fields,
     confidence |-> result.confidence,
     extraction_notes |-> result.extraction_notes,
     raw_response |-> Some(result.raw_response),
     retry_metadata |->
        RetryMetadata({"attempts_made", "success_on_attempt", "validation_passed"},
                      MAX_EXTRACTION_ATTEMPTS, Some(n), TRUE, <<>>, None)]
SuccessResult(result, n) ==
    [extracted_fields |-> result.extracted_fields,
     confidence |-> result.confidence,
     extraction_notes |-> result.extraction_notes,
     raw_response |-> Some(result.raw_response),
     retry_metadata |->
        RetryMetadata({"attempts_made", "success_on_attempt", "validation_passed"},
                      n, Some(n), TRUE, <<>>, None)]

\* a best-effort result that names the last attempt as the one that succeeded
BestEffortResultClaimsSuccess(result, validation, n) ==
    [extracted_fields |-> result.extracted_fields,
     confidence |-> result.confidence,
     extraction_notes |-> result.extraction_notes,
     raw_response |-> Some(result.raw_response),
     retry_metadata |->
        RetryMetadata({"attempts_made", "success_on_attempt", "validation_passed",
                       "final_attempt_issues"},
                      n, Some(n), FALSE, validation.issues, None)]

\* lines 426-432: the last attempt's rejected result, returned as best effort
BestEffortResult(result, validation, n) ==
    [extracted_fields |-> result.extracted_fields,
     confidence |-> result.confidence,
     extraction_notes |-> result.extraction_notes,
     raw_response |-> Some(result.raw_response),
     retry_metadata |->
        RetryMetadata({"attempts_made", "success_on_attempt", "validation_passed",
                       "final_attempt_issues"},
                      n, None, FALSE, validation.issues, None)]

\* lines 455-465: the terminal result after an error on the last attempt
TerminalResult(error_msg, n) ==
    [extracted_fields |-> PyDict(NoObject),
     confidence |-> Tenths(1),
     extraction_notes |-> <<"Extraction failed after ", ToString(n), " attempts: ">> \o error_msg,
     raw_response |-> None,
     retry_metadata |->
        RetryMetadata({"attempts_made", "success_on_attempt", "final_error",
                       "validation_passed"},
                      n, None, FALSE, <<>>, Some(error_msg))]

\* lines 471-477: the fallback after the loop
LogicErrorResult ==
    [extracted_fields |-> PyDict(NoObject),
     confidence |-> Tenths(1),
     extraction_notes |-> <<"Extraction logic error - should not reach this point">>,
     raw_response |-> None,
     retry_metadata |-> RetryMetadata({"attempts_made", "logic_error"}, 0, None, FALSE, <<>>, None)]

\* lines 448-465: an error on the final attempt ends the function with the
\* terminal result; it is not raised again
OnFinalErrorReraise(err, n) == [pc |-> "raised", out |-> err]
OnFinalError(err, n) == [pc |-> "returned", out |-> Returned(TerminalResult(err.msg, n))]

\* line 438: except Exception
RetryHandlerNarrow == {"ValueError"}
RetryHandler == {"Exception"}

\* lines 418 and 448: attempt == MAX_EXTRACTION_ATTEMPTS
\* a final-attempt test that is one late: attempt > MAX_EXTRACTION_ATTEMPTS
IsFinalAttemptLate(n) == n > MAX_EXTRACTION_ATTEMPTS
IsFinalAttempt(n) == n = MAX_EXTRACTION_ATTEMPTS

\* line 379: the for loop over range(1, MAX_EXTRACTION_ATTEMPTS + 1)
\* a loop that counts its attempts from zero: range(0, MAX_EXTRACTION_ATTEMPTS + 1)
FirstAttemptZero == 1 - 1
FirstAttempt == 1
NextAttemptRestart(n) == 1
NextAttempt(n) == n + 1
LoopHasNext(n) == NextAttempt(n) <= MAX_EXTRACTION_ATTEMPTS

\* lines 388-391 of one attempt: the call, then the validator on what it returned
AttemptRecord(dt, reply) ==
    LET call == extract_with_specialized_prompt(dt, reply)
    IN  [call |-> call,
         validation |-> IF call.exc = "none"
                        THEN validate_extraction_quality(call.val, dt)
                        ELSE NotCalled]

\* the exception that left the try body of an attempt, if any
AttemptError(rec) ==
    IF rec.call.exc # "none" THEN rec.call
    ELSE IF rec.validation.exc # "none" THEN rec.validation
    ELSE Returned(<<>>)

\* which result the loop returns from once the first attempt was rejected
BestEffortPickFirst(first, last) ==
    IF first.call.exc = "none" /\ first.validation.exc = "none" THEN first ELSE last
BestEffortPick(first, last) == last

InitRetry ==
    /\ pc = "attempt"
    /\ IdleParse
    /\ IdleClass
    /\ doc_type \in DocumentTypeValues
    /\ attempt = FirstAttempt
    /\ extract_calls = 0
    /\ endpoint_calls = 0
    /\ pauses = 0
    /\ attempts = <<>>
    /\ extraction = NotCalled
    /\ ReliableAudit
    /\ IdlePipe
    /\ IdleOuter

\* lines 287, 320 and 348: the audit events of one
\* extract_with_specialized_prompt call (none when the prompt lookup raises)
ExtractAdapterEvents(document_type, reply) ==
    IF ~CallsEndpoint(document_type) THEN <<>>
    ELSE <<Event("BEDROCK_EXTRACTION_STARTED", 0)>>
         \o (IF reply.kind = "ok" THEN <<Event("BEDROCK_EXTRACTION_COMPLETED", 0)>>
             ELSE IF reply.kind = "ClientError" THEN <<Event("BEDROCK_EXTRACTION_FAILED", 0)>>
             ELSE <<>>)

\* lines 381, 395, 411, 420, 441 and 450: the audit events of attempt n
AttemptEvents(n, document_type, reply, rec) ==
    <<Event("EXTRACTION_ATTEMPT_STARTED", n)>>
    \o ExtractAdapterEvents(document_type, reply)
    \o (IF AttemptError(rec).exc # "none"
        THEN IF ~Catches(RetryHandler, AttemptError(rec).exc) THEN <<>>
             ELSE <<Event("EXTRACTION_ATTEMPT_FAILED", n)>>
                  \o (IF IsFinalAttempt(n)
                      THEN <<Event("EXTRACTION_COMPLETELY_FAILED", n)>> ELSE <<>>)
        ELSE IF rec.validation.val.is_acceptable
        THEN <<Event("EXTRACTION_SUCCESS", n)>>
        ELSE <<Event("EXTRACTION_QUALITY_POOR", n)>>
             \o (IF IsFinalAttempt(n)
                 THEN <<Event("EXTRACTION_MAX_ATTEMPTS_REACHED", n)>> ELSE <<>>))

\* lines 380-469: one iteration of the loop up to its return or its pause
AttemptCore(reply, outcome) ==
    /\ pc = "attempt"
    /\ extract_calls < MaxCalls
    /\ LET rec == AttemptRecord(doc_type, reply)
           err == AttemptError(rec)
           best == BestEffortPick(attempts[1], rec)
           log == LogAll(outcome, AttemptEvents(attempt, doc_type, reply, rec))
       IN  IF log.exc # "none"
           THEN /\ pc' = "raised"
                /\ extraction' = AuditError(log.exc)
                /\ UNCHANGED <<attempts, extract_calls, endpoint_calls, converse_calls>>
           ELSE
           /\ attempts' = Append(attempts, rec)
           /\ converse_calls' =
                 converse_calls \o (IF CallsEndpoint(doc_type)
                                    THEN AdapterCalls(EXTRACTION_MODEL, reply) ELSE <<>>)
           /\ extract_calls' = extract_calls + 1
           /\ endpoint_calls' = endpoint_calls + (IF CallsEndpoint(doc_type) THEN 1 ELSE 0)
           /\ IF err.exc # "none"
              THEN IF ~Catches(RetryHandler, err.exc)
                   THEN pc' = "raised" /\ extraction' = err
                   ELSE IF IsFinalAttempt(attempt)
                   THEN /\ pc' = OnFinalError(err, attempt).pc
                        /\ extraction' = OnFinalError(err, attempt).out
                   ELSE pc' = "pause" /\ UNCHANGED extraction
              ELSE IF rec.validation.val.is_acceptable
              THEN /\ pc' = "returned"
                   /\ extraction' = Returned(SuccessResult(rec.call.val, attempt))
              ELSE IF IsFinalAttempt(attempt)
              THEN /\ pc' = "returned"
                   /\ extraction' =
                        Returned(BestEffortResult(best.call.val, best.validation.val, attempt))
              ELSE pc' = "pause" /\ UNCHANGED extraction
    /\ UNCHANGED <<doc_type, attempt, pauses, parseVars, classVars, pipeVars, outerVars>>
Attempt(reply, outcome) ==
    /\ AttemptCore(reply, outcome)
    /\ Audited(LogAll(outcome,
                      AttemptEvents(attempt, doc_type, reply, AttemptRecord(doc_type, reply))))

\* lines 434-436 and 467-469: time.sleep(0.5), then continue with the loop
PauseNoSleep ==
    /\ pc = "pause"
    /\ pauses < MaxCalls
    /\ UNCHANGED pauses
    /\ IF LoopHasNext(attempt)
       THEN pc' = "attempt" /\ attempt' = NextAttempt(attempt) /\ UNCHANGED extraction
       ELSE pc' = "returned" /\ extraction' = Returned(LogicErrorResult) /\ UNCHANGED attempt
    /\ UNCHANGED <<doc_type, extract_calls, endpoint_calls, attempts, parseVars, classVars,
                   auditVars, pipeVars, converse_calls, outerVars>>
Pause ==
    /\ pc = "pause"
    /\ pauses < MaxCalls
    /\ pauses' = pauses + 1
    /\ IF LoopHasNext(attempt)
       THEN pc' = "attempt" /\ attempt' = NextAttempt(attempt) /\ UNCHANGED extraction
       ELSE pc' = "returned" /\ extraction' = Returned(LogicErrorResult) /\ UNCHANGED attempt
    /\ UNCHANGED <<doc_type, extract_calls, endpoint_calls, attempts, parseVars, classVars,
                   auditVars, pipeVars, converse_calls, outerVars>>

NextRetry ==
    \/ \E reply \in ExtractionEndpoint(doc_type), outcome \in SinkOutcomes(audit_sink) :
          Attempt(reply, outcome)
    \/ Pause
SpecRetry == InitRetry /\ [][NextRetry]_vars

\* The same loop under the scheduling the code has: the steps are sequential
\* and blocking, so a call or a pause that has started also returns (weak
\* fairness). The replies are the sample whose fields dict is empty or has as
\* many keys as the type has critical fields.
ReplySample(replies) ==
    {r \in replies :
        \/ r.kind # "ok"
        \/ r.text.shape # "object"
        \/ r.text.fields.kind # "dict"
        \/ Cardinality(DOMAIN r.text.fields.items) \in {0, 5}}
LetterOfCreditSample == ReplySample(LetterOfCreditReplies)
CommercialInvoiceSample == ReplySample(CommercialInvoiceReplies)
GenericSample == ReplySample(GenericReplies)
ExtractionEndpointSample(document_type) ==
    CASE document_type = JStr("LETTER_OF_CREDIT") -> LetterOfCreditSample
      [] document_type = JStr("COMMERCIAL_INVOICE") -> CommercialInvoiceSample
      [] OTHER -> GenericSample

NextRetrySample ==
    \/ \E reply \in ExtractionEndpointSample(doc_type), outcome \in SinkOutcomes(audit_sink) :
          Attempt(reply, outcome)
    \/ Pause
SpecRetryFair == InitRetry /\ [][NextRetrySample]_vars /\ WF_vars(NextRetrySample)

\* ------------------------------------------------------------------------
\* Claims about the parser (checked under SpecParse)
\* ------------------------------------------------------------------------

\* C10: parse_claude_classification_response never raises, and for a text that
\* does not decode as a JSON object (prose, truncated, an array, a number,
\* null) it returns document_type 'OTHER', confidence 0.3, complexity_score
\* 0.5 and raw_response equal to the input text.
C10_ParserSafeDefaults ==
    pc = "parsed" =>
        /\ p_result.exc = "none"
        /\ ~IsJsonObject(p_text) =>
              p_result.val = [document_type |-> JStr("OTHER"),
                              confidence |-> Fin(3 * (ONE \div 10)),
                              complexity_score |-> Fin(5 * (ONE \div 10)),
                              raw_response |-> p_text]

\* C10 witness: a JSON array went through the parser's catch-all handler
C10_Witness ==
    /\ pc = "parsed"
    /\ p_text.shape = "array"
    /\ p_result.exc = "none"
    /\ p_result.val.raw_response = p_text

\* ------------------------------------------------------------------------
\* Claims about smart_classify_document (checked under SpecClassify)
\* ------------------------------------------------------------------------

Stage1Returned == stage1_result.exc = "none"
Stage2Returned == stage2_result.exc = "none"
Stage1Below == Stage1Returned /\ stage1_result.val.confidence.u < 8 * (ONE \div 10)
Stage1AtLeast == Stage1Returned /\ stage1_result.val.confidence.u >= 8 * (ONE \div 10)
Finished == pc \in {"classified", "raised"}
CheapThenExpensive == <<CLASSIFICATION_MODELS.cheap, CLASSIFICATION_MODELS.expensive>>

\* C4: when the stage-1 confidence is strictly below 0.8 (exactly, as a
\* decimal) the function makes the cheap call and then the expensive call:
\* never a third call, never finished after only one, and every result it
\* returns has escalated = true and model_used = the expensive model.
C4_BelowThresholdEscalatesOnce ==
    Stage1Below =>
        /\ Len(classify_calls) <= 2
        /\ \A i \in 1..Len(classify_calls) : classify_calls[i] = CheapThenExpensive[i]
        /\ pc # "classified" => classification.exc # "none"
        /\ Finished => classify_calls = CheapThenExpensive
        /\ pc = "classified" =>
              /\ classification.exc = "none"
              /\ classification.val.escalated = TRUE
              /\ classification.val.model_used = CLASSIFICATION_MODELS.expensive

\* C4 witness: stage 1 answered 0.7999999 and the function returned escalated
C4_Witness ==
    /\ pc = "classified"
    /\ Stage1Returned
    /\ stage1_result.val.confidence = Fin(8 * (ONE \div 10) - 1)
    /\ classify_calls = CheapThenExpensive
    /\ classification.val.escalated = TRUE

\* C5: when the stage-1 confidence is at least 0.8, 0.8 itself included, the
\* function has returned after the single cheap call, with the stage-1
\* document_type and confidence unchanged, escalated = false and model_used =
\* the cheap model.
C5_AtThresholdNoEscalation ==
    Stage1AtLeast =>
        /\ pc = "classified"
        /\ classify_calls = <<CLASSIFICATION_MODELS.cheap>>
        /\ stage2_result = NotCalled
        /\ classification.exc = "none"
        /\ classification.val.document_type = stage1_result.val.document_type
        /\ classification.val.confidence = stage1_result.val.confidence
        /\ classification.val.escalated = FALSE
        /\ classification.val.model_used = CLASSIFICATION_MODELS.cheap

\* C5 witness: stage 1 answered exactly 0.8 and the function returned
C5_Witness ==
    /\ pc = "classified"
    /\ Stage1Returned
    /\ stage1_result.val.confidence = Fin(8 * (ONE \div 10))
    /\ classification.val.escalated = FALSE

\* C6: once the stage-2 call has answered, whatever its confidence, the
\* function has returned: there are exactly two calls (never a third), and the
\* returned document_type, confidence and complexity_score are those of the
\* stage-2 answer, not of stage 1.
C6_Stage2IsFinal ==
    /\ Len(classify_calls) <= 2
    /\ Stage2Returned =>
          /\ pc = "classified"
          /\ Len(classify_calls) = 2
          /\ classification.exc = "none"
          /\ classification.val.document_type = stage2_result.val.document_type
          /\ classification.val.confidence = stage2_result.val.confidence
          /\ classification.val.complexity_score = stage2_result.val.complexity_score

\* C6 witness: stage 2 answered below the threshold again, with another
\* document type, confidence and complexity than stage 1, and the function returned
C6_Witness ==
    /\ pc = "classified"
    /\ Stage2Returned
    /\ stage2_result.val.confidence.u < 8 * (ONE \div 10)
    /\ stage2_result.val.document_type # stage1_result.val.document_type
    /\ stage2_result.val.confidence # stage1_result.val.confidence
    /\ stage2_result.val.complexity_score # stage1_result.val.complexity_score
    /\ classification.val.confidence = stage2_result.val.confidence

\* ------------------------------------------------------------------------
\* Claims about extract_with_retry (checked under SpecRetry, C2 under SpecRetryFair)
\* ------------------------------------------------------------------------

Started(n) == Len(attempts) >= n
\* attempt n ended with an exception, from the call or from the validator
AttemptRaised(n) == Started(n) /\ AttemptError(attempts[n]).exc # "none"
CallRaised(n) == Started(n) /\ attempts[n].call.exc # "none"
ValidatorRaised(n) == Started(n) /\ attempts[n].validation.exc \notin {"none", "NotCalled"}
\* attempt n returned a result and the validator judged it
AttemptAccepted(n) ==
    Started(n) /\ ~AttemptRaised(n) /\ attempts[n].validation.val.is_acceptable
AttemptRejected(n) ==
    Started(n) /\ ~AttemptRaised(n) /\ ~attempts[n].validation.val.is_acceptable
HasReturned == pc = "returned" /\ extraction.exc = "none"
Metadata == extraction.val.retry_metadata

\* C1: whatever each attempt does (accepted, rejected, an exception from the
\* call or from the validator), one run of extract_with_retry calls
\* extract_with_specialized_prompt, and through it the endpoint, at most twice.
C1_AtMostTwoUpstreamCalls ==
    /\ extract_calls <= 2
    /\ endpoint_calls <= extract_calls
    /\ Len(attempts) = extract_calls

\* C1 witness: the validator raised on attempt 1, the call raised on attempt 2,
\* and the run ended after its second call
C1_Witness ==
    /\ pc = "returned"
    /\ ValidatorRaised(1)
    /\ CallRaised(2)
    /\ extract_calls = 2
    /\ endpoint_calls = 2

\* C2: every run of extract_with_retry returns, given that each call and each
\* pause returns: the attempt counter stays within 1..2, the loop body is only
\* ever entered again with a larger counter, and the run reaches its return.
C2_AlwaysTerminates ==
    /\ <>(pc = "returned")
    /\ [](attempt \in 1..2)
    /\ [][pc' = "attempt" => attempt' > attempt]_vars

\* C2 witness: a run that went through the pause into attempt 2 and returned
C2_Witness ==
    /\ pc = "returned"
    /\ attempt = 2
    /\ pauses = 1
    /\ Len(attempts) = 2

\* C3: extract_with_retry never raises, and when the second attempt ends with
\* an exception (attempt 1 having raised or been rejected) it has returned
\* empty fields, confidence 0.1, notes citing the error, attempts_made = 2,
\* success_on_attempt = None, validation_passed = false and final_error = the
\* second attempt's error message.
C3_FinalErrorGivesTerminalResult ==
    /\ pc # "raised"
    /\ AttemptRaised(2) =>
          /\ HasReturned
          /\ extraction.val.extracted_fields = PyDict(NoObject)
          /\ extraction.val.confidence = Fin(ONE \div 10)
          /\ extraction.val.extraction_notes =
                <<"Extraction failed after ", "2", " attempts: ">> \o AttemptError(attempts[2]).msg
          /\ Metadata.attempts_made = 2
          /\ "success_on_attempt" \in Metadata.keys /\ Metadata.success_on_attempt = None
          /\ Metadata.validation_passed = FALSE
          /\ Metadata.final_error = Some(AttemptError(attempts[2]).msg)

\* C3 witness: both attempts raised, with different messages, and the result
\* carries the second one
C3_Witness ==
    /\ HasReturned
    /\ AttemptRaised(1)
    /\ AttemptRaised(2)
    /\ AttemptError(attempts[1]).msg # AttemptError(attempts[2]).msg
    /\ Metadata.final_error = Some(AttemptError(attempts[2]).msg)

\* C7: when the validator accepts the result of attempt 1, the function has
\* returned that result with attempts_made = 1, success_on_attempt = 1 and
\* validation_passed = true, after exactly one upstream call and no pause.
C7_FirstAttemptAccepted ==
    AttemptAccepted(1) =>
        /\ HasReturned
        /\ extraction.val.extracted_fields = attempts[1].call.val.extracted_fields
        /\ extraction.val.confidence = attempts[1].call.val.confidence
        /\ extraction.val.raw_response = Some(attempts[1].call.val.raw_response)
        /\ Metadata.attempts_made = 1
        /\ Metadata.success_on_attempt = Some(1)
        /\ Metadata.validation_passed = TRUE
        /\ extract_calls = 1
        /\ Len(attempts) = 1
        /\ pauses = 0

\* C7 witness: attempt 1 was accepted with all five critical fields filled
C7_Witness ==
    /\ HasReturned
    /\ AttemptAccepted(1)
    /\ attempts[1].validation.val.critical_fields_filled = 5
    /\ extract_calls = 1

\* C8: an exception on attempt 1 is not propagated: the run goes on to the
\* pause and attempt 2, and when attempt 2 is accepted the function has
\* returned its result with attempts_made = 2, success_on_attempt = 2 and
\* validation_passed = true.
C8_FirstErrorIsRetried ==
    AttemptRaised(1) =>
        /\ pc # "raised"
        /\ extraction.exc \in {"none", "NotCalled"}
        /\ Len(attempts) = 1 => pc = "pause" \/ (pc = "attempt" /\ attempt = 2)
        /\ AttemptAccepted(2) =>
              /\ HasReturned
              /\ extraction.val.extracted_fields = attempts[2].call.val.extracted_fields
              /\ extraction.val.confidence = attempts[2].call.val.confidence
              /\ Metadata.attempts_made = 2
              /\ Metadata.success_on_attempt = Some(2)
              /\ Metadata.validation_passed = TRUE

\* C8 witness: the call of attempt 1 raised, attempt 2 was accepted and returned
C8_Witness ==
    /\ HasReturned
    /\ CallRaised(1)
    /\ AttemptAccepted(2)
    /\ Metadata.success_on_attempt = Some(2)

\* C9: when the validator rejects the results of both attempts, the function
\* has returned the second attempt's fields and confidence (not the first's)
\* with attempts_made = 2, success_on_attempt = None and validation_passed =
\* false, after exactly 2 upstream calls.
C9_BothRejectedReturnsSecond ==
    (AttemptRejected(1) /\ AttemptRejected(2)) =>
        /\ HasReturned
        /\ extraction.val.extracted_fields = attempts[2].call.val.extracted_fields
        /\ extraction.val.confidence = attempts[2].call.val.confidence
        /\ extraction.val.raw_response = Some(attempts[2].call.val.raw_response)
        /\ Metadata.attempts_made = 2
        /\ "success_on_attempt" \in Metadata.keys /\ Metadata.success_on_attempt = None
        /\ Metadata.validation_passed = FALSE
        /\ extract_calls = 2

\* C9 witness: both attempts were rejected, the first scored higher than the
\* second and had other fields, and the second one's came back
C9_Witness ==
    /\ HasReturned
    /\ AttemptRejected(1)
    /\ AttemptRejected(2)
    /\ attempts[1].validation.val.quality_score.u > attempts[2].validation.val.quality_score.u
    /\ attempts[1].call.val.extracted_fields # attempts[2].call.val.extracted_fields
    /\ extraction.val.extracted_fields = attempts[2].call.val.extracted_fields

\* ------------------------------------------------------------------------
\* calculate_processing_costs and assess_image_quality
\* ------------------------------------------------------------------------

\* lines 620-623: price per 1000 tokens of each model
ModelCostsFine ==
    (CLASSIFICATION_MODELS.cheap :>
        [input |-> Fin(25 * (ONE \div 100000) + 4), output |-> Fin(125 * (ONE \div 100000))])
    @@ (CLASSIFICATION_MODELS.expensive :>
        [input |-> Fin(3 * (ONE \div 1000) + 4), output |-> Fin(15 * (ONE \div 1000))])
ModelCostsFlat ==
    (CLASSIFICATION_MODELS.cheap :>
        [input |-> Fin(3 * (ONE \div 1000)), output |-> Fin(15 * (ONE \div 1000))])
    @@ (CLASSIFICATION_MODELS.expensive :>
        [input |-> Fin(3 * (ONE \div 1000)), output |-> Fin(15 * (ONE \div 1000))])
model_costs ==
    (CLASSIFICATION_MODELS.cheap :>
        [input |-> Fin(25 * (ONE \div 100000)), output |-> Fin(125 * (ONE \div 100000))])
    @@ (CLASSIFICATION_MODELS.expensive :>
        [input |-> Fin(3 * (ONE \div 1000)), output |-> Fin(15 * (ONE \div 1000))])

\* lines 628-629: the assumed token counts
estimated_input_tokens == 1000
estimated_output_tokens == 200

\* lines 631-639: tokens / 1000 * price, input plus output. The quotients
\* and products are exact Decimals; in units they are exact as long as
\* tokens * price is a multiple of 1000 units, which these prices are.
StageCost(model_id) ==
    Fin((estimated_input_tokens * model_costs[model_id].input.u) \div 1000
        + (estimated_output_tokens * model_costs[model_id].output.u) \div 1000)

\* Decimal.quantize(Decimal('0.000001')): round half even to millionths
Quantize6(d) ==
    LET q == ONE \div 1000000
        lo == (d.u \div q) * q
        rem == d.u - lo
    IN  IF 2 * rem < q THEN Fin(lo)
        ELSE IF 2 * rem > q THEN Fin(lo + q)
        ELSE IF (lo \div q) % 2 = 0 THEN Fin(lo) ELSE Fin(lo + q)

\* lines 614-646
CostsPerAttempt(classification_result, extraction_result) ==
    LET classification_cost == StageCost(classification_result.model_used)
        extraction_cost ==
            Fin(StageCost(EXTRACTION_MODEL).u * extraction_result.retry_metadata.attempts_made)
    IN  [classification_cost_estimate |-> Quantize6(classification_cost),
         extraction_cost_estimate |-> Quantize6(extraction_cost),
         total_estimated_cost |-> Quantize6(Fin(classification_cost.u + extraction_cost.u)),
         cost_optimization_benefit |->
            IF ~classification_result.escalated
            THEN "Used cheap classification model" ELSE "Escalated for accuracy"]
calculate_processing_costs(classification_result, extraction_result) ==
    LET classification_cost == StageCost(classification_result.model_used)
        extraction_cost == StageCost(EXTRACTION_MODEL)
    IN  [classification_cost_estimate |-> Quantize6(classification_cost),
         extraction_cost_estimate |-> Quantize6(extraction_cost),
         total_estimated_cost |-> Quantize6(Fin(classification_cost.u + extraction_cost.u)),
         cost_optimization_benefit |->
            IF ~classification_result.escalated
            THEN "Used cheap classification model" ELSE "Escalated for accuracy"]

\* lines 648-661: a quality guess from the size of the file in bytes
assess_image_quality(file_size) ==
    IF file_size < 50000 THEN Tenths(3)
    ELSE IF file_size > 500000 THEN Tenths(9)
    ELSE Tenths(6)

\* ------------------------------------------------------------------------
\* process_document_enhanced_with_retry
\* ------------------------------------------------------------------------

\* what s3.get_object does: an object of some size, a ClientError, or
\* another botocore error
ImageSizes == {49999, 500001}
S3Replies ==
    {[kind |-> "ok", msg |-> "", size |-> n] : n \in ImageSizes}
    \cup {[kind |-> "ClientError", msg |-> "The specified key does not exist.", size |-> 0],
          [kind |-> "ReadTimeoutError", msg |-> "Read timed out", size |-> 0]}

\* the replies of the inference endpoint used for whole-document runs
ProcessClassifyTexts ==
    {Text("prose", NoObject)}
    \cup {Text("object", o) : o \in
            {[k \in {"document_type", "confidence", "complexity_score"} |->
                 CASE k = "document_type" -> dt
                   [] k = "confidence" -> c
                   [] OTHER -> JNum(7 * (ONE \div 10), 0)] :
               dt \in {JStr("LETTER_OF_CREDIT"), JStr("BILL_OF_LADING")},
               c \in {JNum(95 * (ONE \div 100), 0), JNum(3 * (ONE \div 10), 0)}}}
    \cup {Text("object", [k \in {"confidence"} |-> JStr("very high")])}
ProcessClassifyReplies ==
    {Failure("ClientError", "ThrottlingException", Text("prose", NoObject)),
     Failure("ReadTimeoutError", "Read timed out", Text("prose", NoObject))}
    \cup {Answer(t) : t \in ProcessClassifyTexts}

ProcessExtractTexts(document_type) ==
    LET critical == get_critical_fields_for_document_type(document_type)
    IN  {ExtractionProse,
         ExtractionText("object", TRUE, PyDict(FieldsDict(critical, Len(critical), 0, 0)),
                        TRUE, JNum(8 * (ONE \div 10), 0)),
         ExtractionText("object", TRUE, PyDict(FieldsDict(critical, 0, 2, 0)),
                        TRUE, JNum(ONE \div 10, 0)),
         ExtractionText("object", TRUE, PyNone, TRUE, JNum(8 * (ONE \div 10), 0))}
ProcessExtractReplies(document_type) ==
    {Failure("ClientError", "ThrottlingException", ExtractionProse)}
    \cup {Answer(t) : t \in ProcessExtractTexts(document_type)}
LetterOfCreditProcessReplies == ProcessExtractReplies(JStr("LETTER_OF_CREDIT"))
GenericProcessReplies == ProcessExtractReplies(JStr("OTHER"))
ProcessExtractEndpoint(document_type) ==
    IF document_type = JStr("LETTER_OF_CREDIT")
    THEN LetterOfCreditProcessReplies ELSE GenericProcessReplies

InitProcess ==
    /\ pc = "fetch"
    /\ IdleParse
    /\ IdleClass
    /\ IdleRetry
    /\ audit_sink = "unreliable"
    /\ IdleAudit
    /\ IdlePipe
    /\ IdleOuter

\* lines 564 and 570 (611 in the handler of line 609)
FetchEvents(s3) ==
    <<Event("S3_DOWNLOAD_STARTED", 0)>>
    \o (IF s3.kind = "ok" THEN <<Event("S3_DOWNLOAD_COMPLETED", 0)>>
        ELSE IF s3.kind = "ClientError" THEN <<Event("S3_DOWNLOAD_FAILED", 0)>>
        ELSE <<>>)

\* lines 562-572 and 609-612: the download; a ClientError leaves the function
\* as Exception("S3 download failed: ..."), any other error as it is
FetchCore(s3, outcome) ==
    /\ pc = "fetch"
    /\ LET log == LogAll(outcome, FetchEvents(s3))
       IN  IF log.exc # "none"
           THEN pc' = "failed" /\ processed' = AuditError(log.exc) /\ UNCHANGED fetched
           ELSE IF s3.kind = "ok"
           THEN pc' = "stage1" /\ fetched' = Returned(s3.size) /\ UNCHANGED processed
           ELSE IF s3.kind = "ClientError"
           THEN /\ pc' = "failed"
                /\ fetched' = Raised(s3.kind, <<s3.msg>>)
                /\ processed' = Raised("Exception", <<"S3 download failed: ", s3.msg>>)
           ELSE /\ pc' = "failed"
                /\ fetched' = Raised(s3.kind, <<s3.msg>>)
                /\ processed' = Raised(s3.kind, <<s3.msg>>)
    /\ UNCHANGED <<parseVars, classVars, retryVars, converse_calls, outerVars>>
Fetch(s3, outcome) ==
    /\ FetchCore(s3, outcome)
    /\ Audited(LogAll(outcome, FetchEvents(s3)))

\* lines 578-583: extract_with_retry is called with the settled document type
BeginExtraction ==
    /\ pc = "classified"
    /\ pc' = "attempt"
    /\ doc_type' = classification.val.document_type
    /\ attempt' = FirstAttempt
    /\ UNCHANGED <<extract_calls, endpoint_calls, pauses, attempts, extraction,
                   parseVars, classVars, auditVars, pipeVars, converse_calls, outerVars>>

\* the exception that left smart_classify_document or extract_with_retry
Escaping == IF extraction.exc \notin {"none", "NotCalled"} THEN extraction ELSE classification

\* lines 609-612: only a ClientError is handled; every other exception of
\* the classification or of the extraction leaves the function as it is
PropagateCore(outcome) ==
    /\ pc = "raised"
    /\ pc' = "failed"
    /\ processed' =
          IF Escaping.exc = "ClientError"
          THEN IF LogAll(outcome, <<Event("S3_DOWNLOAD_FAILED", 0)>>).exc # "none"
               THEN AuditError(LogAll(outcome, <<Event("S3_DOWNLOAD_FAILED", 0)>>).exc)
               ELSE Raised("Exception", <<"S3 download failed: ">> \o Escaping.msg)
          ELSE Escaping
    /\ UNCHANGED <<fetched, parseVars, classVars, retryVars, converse_calls, outerVars>>
Propagate(outcome) ==
    /\ PropagateCore(outcome)
    /\ Audited(LogAll(outcome, IF Escaping.exc = "ClientError"
                               THEN <<Event("S3_DOWNLOAD_FAILED", 0)>> ELSE <<>>))

\* lines 586-607: the combined result (the processing timestamp is left out)
CombinedResult(classification_result, extraction_result, file_size) ==
    [document_type |-> classification_result.document_type,
     classification_confidence |-> classification_result.confidence,
     classification_model_used |-> classification_result.model_used,
     classification_escalated |-> classification_result.escalated,
     extracted_fields |-> extraction_result.extracted_fields,
     extraction_confidence |-> extraction_result.confidence,
     extraction_notes |-> extraction_result.extraction_notes,
     extraction_retry_metadata |-> extraction_result.retry_metadata,
     processing_costs |-> calculate_processing_costs(classification_result, extraction_result),
     training_metadata |->
        [image_quality_score |-> assess_image_quality(file_size),
         document_complexity_score |-> classification_result.complexity_score,
         models_used |-> [classification |-> classification_result.model_used,
                          extraction |-> EXTRACTION_MODEL]]]

Combine ==
    /\ pc = "returned"
    /\ pc' = "combined"
    /\ processed' = Returned(CombinedResult(classification.val, extraction.val, fetched.val))
    /\ UNCHANGED <<fetched, parseVars, classVars, retryVars, auditVars, converse_calls,
                   outerVars>>

NextProcess ==
    \/ \E s3 \in S3Replies, outcome \in SinkOutcomes(audit_sink) : Fetch(s3, outcome)
    \/ \E reply \in ProcessClassifyReplies, outcome \in SinkOutcomes(audit_sink) :
          Stage1(reply, outcome)
    \/ \E reply \in ProcessClassifyReplies, outcome \in SinkOutcomes(audit_sink) :
          Stage2(reply, outcome)
    \/ BeginExtraction
    \/ \E reply \in ProcessExtractEndpoint(doc_type), outcome \in SinkOutcomes(audit_sink) :
          Attempt(reply, outcome)
    \/ Pause
    \/ \E outcome \in SinkOutcomes(audit_sink) : Propagate(outcome)
    \/ Combine
SpecProcess == InitProcess /\ [][NextProcess]_vars

\* ------------------------------------------------------------------------
\* The parser on decoded objects
\* ------------------------------------------------------------------------

Parsed == pc = "parsed" /\ p_result.exc = "none"
ParsedObject == Parsed /\ IsJsonObject(p_text)
Has(key) == key \in DOMAIN p_text.obj

\* confidence values that are present but no number: a word, null, a boolean,
\* a list
NonNumericConfidences == {JStr("very high"), JNull, JBool, JList}

\* C11: a decoded object whose confidence is present but non-numeric parses
\* to confidence 0.3, and its document_type is returned as the response gave
\* it (OTHER when the response has none).
C11_NonNumericConfidence ==
    (pc = "parsed" /\ IsJsonObject(p_text) /\ Has("confidence")
        /\ p_text.obj["confidence"] \in NonNumericConfidences) =>
        /\ p_result.exc = "none"
        /\ p_result.val.confidence = Tenths(3)
        /\ p_result.val.document_type = DictGet(p_text.obj, "document_type", JStr("OTHER"))
C11_Witness ==
    /\ ParsedObject
    /\ Has("confidence") /\ p_text.obj["confidence"] = JStr("very high")
    /\ Has("document_type") /\ p_text.obj["document_type"] = JStr("LETTER_OF_CREDIT")
    /\ p_result.val.confidence = Tenths(3)
    /\ p_result.val.document_type = JStr("LETTER_OF_CREDIT")

\* a Decimal in the closed interval [0,1]
InUnit(d) == d.k = "fin" /\ 0 <= d.u /\ d.u <= ONE
ScoresInUnit(outcome) ==
    outcome.exc = "none" =>
        InUnit(outcome.val.confidence) /\ InUnit(outcome.val.complexity_score)

\* C12: whatever text the endpoint answers with, the confidence and the
\* complexity_score the parser gives back for a classification call lie in
\* [0,1], and so do those of the result smart_classify_document returns.
C12_ScoresInUnitInterval ==
    /\ ScoresInUnit(stage1_result)
    /\ ScoresInUnit(stage2_result)
    /\ ScoresInUnit(classification)
C12_Witness ==
    /\ pc = "classified"
    /\ Len(classify_calls) = 2
    /\ IsJsonObject(stage2_result.val.raw_response)
    /\ "confidence" \in DOMAIN stage2_result.val.raw_response.obj
    /\ stage2_result.val.raw_response.obj["confidence"] = JNum(15 * (ONE \div 10), 0)
    /\ "complexity_score" \in DOMAIN stage2_result.val.raw_response.obj
    /\ stage2_result.val.raw_response.obj["complexity_score"] = JNum(15 * (ONE \div 10), 0)
    /\ InUnit(classification.val.confidence)
    /\ InUnit(classification.val.complexity_score)

\* a JSON number (or Infinity) lying outside [0,1]
OutOfRange(v) == (v.t = "num" /\ (v.u < 0 \/ v.u > ONE)) \/ v.t = "inf"

\* C13: a numeric confidence or complexity_score outside [0,1] is replaced
\* by 0.5; it is not moved to the nearest bound.
C13_OutOfRangeSubstituted ==
    (pc = "parsed" /\ IsJsonObject(p_text)) =>
        /\ p_result.exc = "none"
        /\ (Has("confidence") /\ OutOfRange(p_text.obj["confidence"]))
              => p_result.val.confidence = Tenths(5)
        /\ (Has("complexity_score") /\ OutOfRange(p_text.obj["complexity_score"]))
              => p_result.val.complexity_score = Tenths(5)
C13_Witness ==
    /\ ParsedObject
    /\ Has("confidence") /\ p_text.obj["confidence"] = JNum(0 - 2 * (ONE \div 10), 0)
    /\ Has("complexity_score") /\ p_text.obj["complexity_score"] = JNum(15 * (ONE \div 10), 0)
    /\ p_result.val.confidence = Tenths(5)
    /\ p_result.val.complexity_score = Tenths(5)

\* a JSON number inside [0,1] whose literal is exactly a double's repr
InRange(v) == v.t = "num" /\ v.tail = 0 /\ 0 <= v.u /\ v.u <= ONE

\* C14: a decoded object that lacks a key gets that key's default (confidence
\* 0.5, complexity_score 0.5, document_type OTHER) while the keys it has are
\* kept: document_type as given, an in-range score as given.
C14_AbsentKeysDefaulted ==
    (pc = "parsed" /\ IsJsonObject(p_text)) =>
        /\ p_result.exc = "none"
        /\ ~Has("confidence") => p_result.val.confidence = Tenths(5)
        /\ ~Has("complexity_score") => p_result.val.complexity_score = Tenths(5)
        /\ ~Has("document_type") => p_result.val.document_type = JStr("OTHER")
        /\ Has("document_type") => p_result.val.document_type = p_text.obj["document_type"]
        /\ (Has("confidence") /\ InRange(p_text.obj["confidence"]))
              => p_result.val.confidence = Fin(p_text.obj["confidence"].u)
        /\ (Has("complexity_score") /\ InRange(p_text.obj["complexity_score"]))
              => p_result.val.complexity_score = Fin(p_text.obj["complexity_score"].u)
C14_Witness ==
    /\ ParsedObject
    /\ ~Has("confidence")
    /\ Has("document_type") /\ p_text.obj["document_type"] = JStr("COMMERCIAL_INVOICE")
    /\ Has("complexity_score") /\ p_text.obj["complexity_score"] = JNum(7 * (ONE \div 10), 0)
    /\ p_result.val.confidence = Tenths(5)
    /\ p_result.val.document_type = JStr("COMMERCIAL_INVOICE")
    /\ p_result.val.complexity_score = Tenths(7)

\* ------------------------------------------------------------------------
\* The validator on every attempt's extraction result
\* ------------------------------------------------------------------------

\* attempt i returned an extraction result and the validator assessed it
Validated(i) ==
    /\ i \in DOMAIN attempts
    /\ attempts[i].call.exc = "none"
    /\ attempts[i].validation.exc = "none"

\* the four conditions of the scoring rule, on the result of attempt i
LowConfidence(i) ==
    attempts[i].call.val.confidence.k = "fin"
        /\ attempts[i].call.val.confidence.u < 3 * (ONE \div 10)
FieldCount(i) == Cardinality(DOMAIN attempts[i].call.val.extracted_fields.items)
CriticalEmpty(i) ==
    EmptyCriticalFields(attempts[i].call.val.extracted_fields.items,
                        CriticalFieldsMap(doc_type))
CriticalMostlyEmpty(i) == 10 * CriticalEmpty(i) > 7 * Len(CriticalFieldsMap(doc_type))

\* the codes and the penalty (in units) of the conditions that hold
IssuesDue(i) ==
    (IF LowConfidence(i) THEN {"confidence_too_low"} ELSE {})
    \cup (IF FieldCount(i) = 0 THEN {"no_fields_extracted"} ELSE {})
    \cup (IF FieldCount(i) \in {1, 2} THEN {"too_few_fields"} ELSE {})
    \cup (IF CriticalMostlyEmpty(i) THEN {"critical_fields_mostly_empty"} ELSE {})
PenaltyDue(i) ==
    (IF LowConfidence(i) THEN 3 * (ONE \div 10) ELSE 0)
    + (IF FieldCount(i) = 0 THEN 4 * (ONE \div 10) ELSE 0)
    + (IF FieldCount(i) \in {1, 2} THEN 2 * (ONE \div 10) ELSE 0)
    + (IF CriticalMostlyEmpty(i) THEN 3 * (ONE \div 10) ELSE 0)

\* C15: the validator's quality_score is 1.0 less the penalties of exactly
\* the conditions that hold, its issues are exactly their codes (each once),
\* and the zero-field and the too-few-fields issue never come together.
C15_ScoreIsOneMinusPenalties ==
    \A i \in 1..2 :
        Validated(i) =>
            LET v == attempts[i].validation.val
            IN  /\ v.quality_score = Fin(ONE - PenaltyDue(i))
                /\ Range(v.issues) = IssuesDue(i)
                /\ Len(v.issues) = Cardinality(IssuesDue(i))
                /\ ~({"no_fields_extracted", "too_few_fields"} \subseteq Range(v.issues))
C15_Witness ==
    /\ Validated(1)
    /\ doc_type = JStr("LETTER_OF_CREDIT")
    /\ FieldCount(1) = 2
    /\ CriticalEmpty(1) = 4
    /\ attempts[1].validation.val.issues =
          <<"confidence_too_low", "too_few_fields", "critical_fields_mostly_empty">>
    /\ attempts[1].validation.val.quality_score = Tenths(2)

\* C16: is_acceptable is true exactly when quality_score >= 0.4 and there are
\* at most two issues; a score of exactly 0.4 is accepted.
C16_AcceptanceRule ==
    \A i \in 1..2 :
        Validated(i) =>
            LET v == attempts[i].validation.val
            IN  v.is_acceptable <=>
                    (v.quality_score.u >= 4 * (ONE \div 10) /\ Len(v.issues) <= 2)
C16_Witness ==
    /\ pc = "returned"
    /\ Validated(1)
    /\ attempts[1].validation.val.quality_score = Tenths(4)
    /\ attempts[1].validation.val.issues =
          <<"confidence_too_low", "critical_fields_mostly_empty">>
    /\ attempts[1].validation.val.is_acceptable
    /\ extraction.exc = "none"
    /\ extraction.val.retry_metadata.validation_passed

\* ------------------------------------------------------------------------
\* Cost estimates of a processed document
\* ------------------------------------------------------------------------

Combined == pc = "combined" /\ processed.exc = "none"
Costs == processed.val.processing_costs
Millionths(d) == d.k = "fin" /\ d.u % (ONE \div 1000000) = 0

\* C17: for either classification tier the total estimate equals the
\* classification estimate plus the extraction estimate exactly, all three
\* being whole numbers of millionths.
C17_TotalIsSumOfParts ==
    Combined =>
        /\ Millionths(Costs.classification_cost_estimate)
        /\ Millionths(Costs.extraction_cost_estimate)
        /\ Millionths(Costs.total_estimated_cost)
        /\ Costs.total_estimated_cost.u =
              Costs.classification_cost_estimate.u + Costs.extraction_cost_estimate.u
C17_Witness ==
    /\ Combined
    /\ processed.val.classification_model_used = CLASSIFICATION_MODELS.cheap
    /\ Costs.classification_cost_estimate = Fin(5 * (ONE \div 10000))
    /\ Costs.extraction_cost_estimate = Fin(6 * (ONE \div 1000))
    /\ Costs.total_estimated_cost = Fin(65 * (ONE \div 10000))

\* the estimate the same document would get on the other classification tier
OtherTier(model_id) ==
    IF model_id = CLASSIFICATION_MODELS.cheap
    THEN CLASSIFICATION_MODELS.expensive ELSE CLASSIFICATION_MODELS.cheap
OtherTierTotal ==
    calculate_processing_costs(
        [model_used |-> OtherTier(classification.val.model_used),
         escalated |-> ~classification.val.escalated],
        extraction.val).total_estimated_cost
CheapTotal == IF classification.val.escalated THEN OtherTierTotal ELSE Costs.total_estimated_cost
ExpensiveTotal == IF classification.val.escalated THEN Costs.total_estimated_cost ELSE OtherTierTotal

\* C18: under the fixed token assumptions the expensive tier's total is
\* strictly greater than the cheap tier's, and their ratio is the fixed value
\* 24/13, strictly between 1.5 and 3.
C18_ExpensiveCostsMoreBounded ==
    Combined =>
        /\ ExpensiveTotal.u > CheapTotal.u
        /\ 2 * ExpensiveTotal.u > 3 * CheapTotal.u
        /\ ExpensiveTotal.u < 3 * CheapTotal.u
        /\ 13 * ExpensiveTotal.u = 24 * CheapTotal.u
C18_Witness ==
    /\ Combined
    /\ classification.val.escalated
    /\ Costs.total_estimated_cost = Fin(12 * (ONE \div 1000))
    /\ OtherTierTotal = Fin(65 * (ONE \div 10000))

\* C19: the estimates depend on the classification's model_used and escalated
\* flag only: they are what the function gives for a classification result
\* holding just these two keys and any other extraction result, however many
\* attempts and inference calls the document took.
C19_CostsDependOnTierOnly ==
    Combined =>
        \A attempts_made \in 0..MAX_EXTRACTION_ATTEMPTS :
            Costs = calculate_processing_costs(
                        [model_used |-> classification.val.model_used,
                         escalated |-> classification.val.escalated],
                        [retry_metadata |-> [attempts_made |-> attempts_made]])
C19_Witness ==
    /\ Combined
    /\ Len(classify_calls) = 2
    /\ endpoint_calls = 2
    /\ extraction.val.retry_metadata.attempts_made = 2
    /\ Costs = calculate_processing_costs(
                   [model_used |-> CLASSIFICATION_MODELS.expensive, escalated |-> TRUE],
                   [retry_metadata |-> [attempts_made |-> 1]])

\* ------------------------------------------------------------------------
\* Audit writes that fail
\* ------------------------------------------------------------------------

\* a step of the run in which every audit write succeeds, seen on everything
\* but the audit table
ReliableStep ==
    \/ \E s3 \in S3Replies : FetchCore(s3, "ok")
    \/ \E reply \in ProcessClassifyReplies : Stage1Core(reply, "ok")
    \/ \E reply \in ProcessClassifyReplies : Stage2Core(reply, "ok")
    \/ BeginExtraction
    \/ \E reply \in ProcessExtractEndpoint(doc_type) : AttemptCore(reply, "ok")
    \/ Pause
    \/ PropagateCore("ok")
    \/ Combine

\* C20: whatever audit writes fail, log_audit_event lets no exception out and
\* every step changes the calls made, the outcomes and the position of the
\* run exactly as a step of the run whose audit writes all succeed.
C20_AuditFailuresIsolated == [][ReliableStep]_coreVars
C20_Witness ==
    /\ Combined
    /\ audit_failures >= 4
    /\ audit_trail = <<>>
    /\ Len(classify_calls) = 2
    /\ extract_calls = 2
    /\ extraction.val.retry_metadata.validation_passed

\* ------------------------------------------------------------------------
\* convert_floats_to_decimal
\* ------------------------------------------------------------------------

\* Python values of a record. json.loads gives float (the tags "num", "nan"
\* and "inf"), str, None, bool, list and dict; the code adds Decimal and int
JObject(items) == [t |-> "dict", items |-> items]
JArray(items) == [t |-> "list", items |-> items]
PyDecimal(d) == [t |-> "Decimal", d |-> d]
PyInt(n) == [t |-> "int", n |-> n]
PyBool(b) == [t |-> "bool", b |-> b]
PyStr(pieces) == [t |-> "str", pieces |-> pieces]

\* isinstance(obj, float)
IsFloat(obj) == obj.t \in {"num", "nan", "inf"}
\* the members of a dict (by key) or of a list (by position)
Items(obj) == IF "items" \in DOMAIN obj THEN obj.items ELSE <<>>

RECURSIVE ConvertDictsOnly(_)
ConvertDictsOnly(obj) ==
    IF IsFloat(obj) THEN PyDecimal(DecimalOfStr(obj).val)
    ELSE IF obj.t = "dict"
    THEN JObject([key \in DOMAIN obj.items |-> ConvertDictsOnly(obj.items[key])])
    ELSE obj

\* lines 40-51: a float becomes Decimal(str(obj)), a dict and a list are
\* rebuilt from their converted members, anything else is returned as it is
RECURSIVE convert_floats_to_decimal(_)
convert_floats_to_decimal(obj) ==
    IF IsFloat(obj) THEN PyDecimal(DecimalOfStr(obj).val)
    ELSE IF obj.t = "dict"
    THEN JObject([key \in DOMAIN obj.items |-> convert_floats_to_decimal(obj.items[key])])
    ELSE IF obj.t = "list"
    THEN JArray([i \in DOMAIN Items(obj) |-> convert_floats_to_decimal(Items(obj)[i])])
    ELSE obj

\* ------------------------------------------------------------------------
\* store_document_results_enhanced
\* ------------------------------------------------------------------------

\* extracted_fields as the Python value json.loads gave
FieldsValue(fields) ==
    CASE fields.kind = "dict" -> JObject(fields.items)
      [] fields.kind = "none" -> JNull
      [] OTHER -> JList

\* lines 673-696: the record built from the combined result (the result has
\* every key, so no default of result.get is used; the timestamps and the
\* audit id are fixed strings)
document_record(id, key, result) ==
    JObject(
      [document_id |-> PyStr(<<"doc_", id>>),
       created_at |-> PyStr(<<"timestamp">>),
       updated_at |-> PyStr(<<"timestamp">>),
       status |-> PyStr(<<"PROCESSED">>),
       document_type |-> result.document_type,
       source_bucket |-> PyStr(<<"bucket">>),
       source_key |-> PyStr(<<key>>),
       classification_confidence |-> PyDecimal(result.classification_confidence),
       classification_model_used |-> PyStr(<<result.classification_model_used>>),
       classification_escalated |-> PyBool(result.classification_escalated),
       extraction_confidence |-> PyDecimal(result.extraction_confidence),
       extracted_fields |-> FieldsValue(result.extracted_fields),
       extraction_notes |-> PyStr(result.extraction_notes),
       processing_costs |->
          JObject([classification_cost_estimate |->
                      PyDecimal(result.processing_costs.classification_cost_estimate),
                   extraction_cost_estimate |->
                      PyDecimal(result.processing_costs.extraction_cost_estimate),
                   total_estimated_cost |->
                      PyDecimal(result.processing_costs.total_estimated_cost),
                   cost_optimization_benefit |->
                      PyStr(<<result.processing_costs.cost_optimization_benefit>>)]),
       training_metadata |->
          JObject([image_quality_score |->
                      PyDecimal(result.training_metadata.image_quality_score),
                   document_complexity_score |->
                      PyDecimal(result.training_metadata.document_complexity_score),
                   processing_timestamp |-> PyStr(<<"timestamp">>),
                   models_used |->
                      JObject([classification |->
                                  PyStr(<<result.training_metadata.models_used.classification>>),
                               extraction |->
                                  PyStr(<<result.training_metadata.models_used.extraction>>)])]),
       processing_metadata |->
          JObject([processor |-> PyStr(<<"enhanced-claude-vision-lambda">>),
                   processing_strategy |-> PyStr(<<"two_stage_with_embedded_prompts">>),
                   audit_id |-> PyStr(<<"audit_id">>)]),
       ttl |-> PyInt(90 * 24 * 60 * 60)])

\* whether a value holds a binary float at any depth
RECURSIVE HasFloat(_)
HasFloat(obj) ==
    \/ IsFloat(obj)
    \/ \E k \in DOMAIN Items(obj) : HasFloat(Items(obj)[k])

\* line 701: what documents_table.put_item does with an item. The resource
\* layer serialises the item first and raises TypeError on a float; then
\* the service stores the item or answers with a ClientError.
PutItemOutcomes(item) ==
    IF HasFloat(item) THEN {"TypeError"} ELSE {"ok", "ClientError"}

\* the table after put_item: the item replaces the one with the same key
PutItem(table, id, item) ==
    [k \in DOMAIN table \cup {id} |-> IF k = id THEN item ELSE table[k]]

\* lines 663-714: the outcome of store_document_results_enhanced for one
\* outcome of put_item. Only a ClientError is handled, and it is raised
\* again as Exception(error_msg); any other error leaves as it is.
store_document_results_enhanced(put) ==
    CASE put = "ok" -> Returned(None)
      [] put = "ClientError" ->
            Raised("Exception", <<"DynamoDB storage failed: ", "ProvisionedThroughputExceeded">>)
      [] OTHER -> Raised(put, <<"Float types are not supported">>)

\* lines 703 and 713
StoreEvents(put) ==
    CASE put = "ok" -> <<Event("ENHANCED_RESULTS_STORED", 0)>>
      [] put = "ClientError" -> <<Event("STORAGE_FAILED", 0)>>
      [] OTHER -> <<>>

\* ------------------------------------------------------------------------
\* lambda_handler
\* ------------------------------------------------------------------------

\* the body of an SQS record: a document reference, or a body that does not
\* decode to one
Body(key) == [valid |-> TRUE, key |-> key]
MalformedBody == [valid |-> FALSE, key |-> ""]

\* the documents of the runs and what the services answer for each: a
\* letter of credit whose first extraction is rejected and whose second one
\* carries nested numbers, an invoice that needs the stage-2 classification,
\* an object that is not in the bucket, and a document the endpoint throttles
HandlerKeys == {"lc.png", "invoice.png", "missing.png", "blurred.png"}

ClassifiedAs(document_type, confidence) ==
    Answer(Text("object",
                [k \in {"document_type", "confidence", "complexity_score"} |->
                    CASE k = "document_type" -> document_type
                      [] k = "confidence" -> confidence
                      [] OTHER -> JNum(7 * (ONE \div 10), 0)]))

NestedFields ==
    [n \in Range(CriticalFieldsMap(JStr("LETTER_OF_CREDIT"))) \cup {"line_items"} |->
        CASE n = "credit_amount" ->
               JObject([value |-> JNum(1255 * (ONE \div 10), 0),
                        currency |-> JStr("USD"),
                        tolerance |-> JArray(<<JNum(ONE \div 20, 0),
                                               JObject([upper |-> JNum(ONE \div 10, 0)])>>)])
          [] n = "line_items" ->
               JArray(<<JNum(3 * ONE, 0), JArray(<<JNum(ONE \div 4, 0), JNull>>), JNaNLit>>)
          [] n = "lc_number" -> JNum(7 * ONE, 0)
          [] OTHER -> JStr("value")]

InvoiceFields ==
    [n \in Range(CriticalFieldsMap(JStr("COMMERCIAL_INVOICE"))) |->
        IF n = "total_amount" THEN JNum(995 * (ONE \div 10), 0) ELSE JStr("value")]

ServiceReplies(key) ==
    CASE key = "lc.png" ->
           [s3 |-> [kind |-> "ok", msg |-> "", size |-> 500001],
            stage1 |-> ClassifiedAs(JStr("LETTER_OF_CREDIT"), JNum(95 * (ONE \div 100), 0)),
            stage2 |-> ClassifiedAs(JStr("LETTER_OF_CREDIT"), JNum(95 * (ONE \div 100), 0)),
            extract |->
               <<Answer(ExtractionText("object", TRUE,
                                       PyDict(FieldsDict(CriticalFieldsMap(JStr("LETTER_OF_CREDIT")),
                                                         0, 2, 0)),
                                       TRUE, JNum(ONE \div 10, 0))),
                 Answer(ExtractionText("object", TRUE, PyDict(NestedFields),
                                       TRUE, JNum(8 * (ONE \div 10), 0)))>>]
      [] key = "invoice.png" ->
           [s3 |-> [kind |-> "ok", msg |-> "", size |-> 49999],
            stage1 |-> ClassifiedAs(JStr("COMMERCIAL_INVOICE"), JNum(3 * (ONE \div 10), 0)),
            stage2 |-> ClassifiedAs(JStr("COMMERCIAL_INVOICE"), JNum(95 * (ONE \div 100), 0)),
            extract |->
               <<Answer(ExtractionText("object", TRUE, PyDict(InvoiceFields),
                                       TRUE, JNum(8 * (ONE \div 10), 0))),
                 Answer(ExtractionText("object", TRUE, PyDict(InvoiceFields),
                                       TRUE, JNum(8 * (ONE \div 10), 0)))>>]
      [] key = "missing.png" ->
           [s3 |-> [kind |-> "ClientError", msg |-> "The specified key does not exist.",
                    size |-> 0],
            stage1 |-> Failure("ClientError", "ThrottlingException", Text("prose", NoObject)),
            stage2 |-> Failure("ClientError", "ThrottlingException", Text("prose", NoObject)),
            extract |-> <<Failure("ClientError", "ThrottlingException", ExtractionProse),
                          Failure("ClientError", "ThrottlingException", ExtractionProse)>>]
      [] OTHER ->
           [s3 |-> [kind |-> "ok", msg |-> "", size |-> 49999],
            stage1 |-> Failure("ClientError", "ThrottlingException", Text("prose", NoObject)),
            stage2 |-> Failure("ClientError", "ThrottlingException", Text("prose", NoObject)),
            extract |-> <<Failure("ClientError", "ThrottlingException", ExtractionProse),
                          Failure("ClientError", "ThrottlingException", ExtractionProse)>>]

\* uuid.uuid4().hex[:12]: a random value, drawn again for every record
Uuids == {"3f9a1c", "b07e42"}

\* the events lambda_handler is invoked with
Bodies == {Body(k) : k \in HandlerKeys} \cup {MalformedBody}
Events == UNION {[1..n -> Bodies] : n \in 1..MaxRecords}

\* the record the loop is at, and the answers of the services for it
CurrentKey == records[record_index].key
Replies == ServiceReplies(CurrentKey)

InitHandler ==
    /\ pc = "handler"
    /\ IdleParse
    /\ IdleClass
    /\ IdleRetry
    /\ ReliableAudit
    /\ IdlePipe
    /\ validated = NotCalled
    /\ records \in Events
    /\ record_index = 0
    /\ document_id = None
    /\ documents_table = <<>>
    /\ put_items = <<>>
    /\ stored = NotCalled
    /\ response = NotCalled
    /\ invocations = 1
    /\ IdleWorkers
    /\ IdleCollector

\* lines 759-779: the next record of the loop: its body is decoded, a
\* document id is generated and PROCESSING_STARTED is logged; the calls made
\* for the record start afresh
StartRecord(id, outcome) ==
    /\ pc = "handler"
    /\ record_index < Len(records)
    /\ records[record_index + 1].valid
    /\ record_index' = record_index + 1
    /\ document_id' = Some(id)
    /\ pc' = "fetch"
    /\ classify_calls' = <<>>
    /\ stage1_result' = NotCalled
    /\ stage2_result' = NotCalled
    /\ classification' = NotCalled
    /\ doc_type' = JStr("OTHER")
    /\ attempt' = 0
    /\ extract_calls' = 0
    /\ endpoint_calls' = 0
    /\ pauses' = 0
    /\ attempts' = <<>>
    /\ extraction' = NotCalled
    /\ fetched' = NotCalled
    /\ processed' = NotCalled
    /\ converse_calls' = <<>>
    /\ stored' = NotCalled
    /\ Audited(LogAll(outcome, <<Event("PROCESSING_STARTED", 0)>>))
    /\ UNCHANGED <<parseVars, validated, records, documents_table, put_items, response,
                   invocations, workerVars, collectorVars>>

\* the response of the handler of line 807
\* no handler at line 807: the exception leaves lambda_handler
ErrorResponseReraised(error, id) == error
ErrorResponse(error, id) == Returned([statusCode |-> 500, error |-> error.msg, document_id |-> id])

\* lines 807-816: PROCESSING_FAILED is logged when a document id is set
FailedEvents(id) == IF id # None THEN <<Event("PROCESSING_FAILED", 0)>> ELSE <<>>

\* lines 760-764 and 807-825: a body that does not decode, or has no bucket
\* and key, raises inside the try; document_id is still the one of the
\* record before, or None
BadRecord(outcome) ==
    /\ pc = "handler"
    /\ record_index < Len(records)
    /\ ~records[record_index + 1].valid
    /\ record_index' = record_index + 1
    /\ response' = ErrorResponse(Raised("JSONDecodeError", <<"Expecting value">>), document_id)
    /\ pc' = "responded"
    /\ Audited(LogAll(outcome, FailedEvents(document_id)))
    /\ UNCHANGED <<parseVars, classVars, retryVars, pipeVars, converse_calls, validated,
                   records, document_id, documents_table, put_items, stored, invocations,
                   workerVars, collectorVars>>

\* line 786: store_document_results_enhanced with the combined result
Store(put, outcome) ==
    /\ pc = "combined"
    /\ LET record == document_record(document_id[1], CurrentKey, processed.val)
           item == convert_floats_to_decimal(record)
       IN  /\ put \in PutItemOutcomes(item)
           /\ put_items' = Append(put_items, [record |-> record, Item |-> item, outcome |-> put])
           /\ documents_table' = IF put = "ok"
                                 THEN PutItem(documents_table, document_id[1], item)
                                 ELSE documents_table
    /\ stored' = store_document_results_enhanced(put)
    /\ pc' = "stored"
    /\ Audited(LogAll(outcome, StoreEvents(put)))
    /\ UNCHANGED <<parseVars, classVars, retryVars, pipeVars, converse_calls, validated,
                   records, record_index, document_id, response, invocations, workerVars, collectorVars>>

\* lines 788-796: PROCESSING_COMPLETED, then the loop goes on
Complete(outcome) ==
    /\ pc = "stored"
    /\ stored.exc = "none"
    /\ pc' = "handler"
    /\ Audited(LogAll(outcome, <<Event("PROCESSING_COMPLETED", 0)>>))
    /\ UNCHANGED <<parseVars, classVars, retryVars, pipeVars, converse_calls, outerVars>>

\* the exception the try block of lambda_handler ends with
HandlerError == IF pc = "failed" THEN processed ELSE stored

\* lines 807-825: any exception of the processing or of the store ends the
\* invocation with statusCode 500
HandlerExcept(outcome) ==
    /\ \/ pc = "failed"
       \/ pc = "stored" /\ stored.exc # "none"
    /\ response' = ErrorResponse(HandlerError, document_id)
    /\ pc' = "responded"
    /\ Audited(LogAll(outcome, FailedEvents(document_id)))
    /\ UNCHANGED <<parseVars, classVars, retryVars, pipeVars, converse_calls, validated,
                   records, record_index, document_id, documents_table, put_items, stored,
                   invocations, workerVars, collectorVars>>

\* lines 798-805: every record is done
Respond ==
    /\ pc = "handler"
    /\ record_index = Len(records)
    /\ response' = Returned([statusCode |-> 200, error |-> <<>>, document_id |-> document_id])
    /\ pc' = "responded"
    /\ UNCHANGED <<parseVars, classVars, retryVars, auditVars, pipeVars, converse_calls,
                   validated, records, record_index, document_id, documents_table, put_items,
                   stored, invocations, workerVars, collectorVars>>

\* the same event is delivered again: lambda_handler starts anew (line 754-755)
Redeliver ==
    /\ pc = "responded"
    /\ invocations < MaxInvocations
    /\ invocations' = invocations + 1
    /\ record_index' = 0
    /\ document_id' = None
    /\ response' = NotCalled
    /\ stored' = NotCalled
    /\ pc' = "handler"
    /\ UNCHANGED <<parseVars, classVars, retryVars, auditVars, pipeVars, converse_calls,
                   validated, records, documents_table, put_items, workerVars, collectorVars>>

NextHandler ==
    \/ \E id \in Uuids, outcome \in SinkOutcomes(audit_sink) : StartRecord(id, outcome)
    \/ \E outcome \in SinkOutcomes(audit_sink) : BadRecord(outcome)
    \/ \E outcome \in SinkOutcomes(audit_sink) : Fetch(Replies.s3, outcome)
    \/ \E outcome \in SinkOutcomes(audit_sink) : Stage1(Replies.stage1, outcome)
    \/ \E outcome \in SinkOutcomes(audit_sink) : Stage2(Replies.stage2, outcome)
    \/ BeginExtraction
    \/ \E outcome \in SinkOutcomes(audit_sink) : Attempt(Replies.extract[attempt], outcome)
    \/ Pause
    \/ \E outcome \in SinkOutcomes(audit_sink) : Propagate(outcome)
    \/ Combine
    \/ \E put \in {"ok", "ClientError", "TypeError"}, outcome \in SinkOutcomes(audit_sink) :
          Store(put, outcome)
    \/ \E outcome \in SinkOutcomes(audit_sink) : Complete(outcome)
    \/ \E outcome \in SinkOutcomes(audit_sink) : HandlerExcept(outcome)
    \/ Respond
    \/ Redeliver
SpecHandler == InitHandler /\ [][NextHandler]_vars

\* ------------------------------------------------------------------------
\* Two invocations at once
\* ------------------------------------------------------------------------

\* Everything an invocation works on is a local of its functions; the module
\* level holds the clients and constants of lines 19-38, which are never
\* assigned. The locals of the invocation that is running:
Locals ==
    [pc |-> pc, records |-> records, record_index |-> record_index,
     fetched |-> fetched, processed |-> processed,
     classify_calls |-> classify_calls, stage1_result |-> stage1_result,
     stage2_result |-> stage2_result, classification |-> classification,
     doc_type |-> doc_type, attempt |-> attempt, extract_calls |-> extract_calls,
     endpoint_calls |-> endpoint_calls, pauses |-> pauses, attempts |-> attempts,
     extraction |-> extraction, converse_calls |-> converse_calls]

\* the locals of an invocation that is about to process the document `key`
FreshLocals(key) ==
    [pc |-> "fetch", records |-> <<Body(key)>>, record_index |-> 1,
     fetched |-> NotCalled, processed |-> NotCalled,
     classify_calls |-> <<>>, stage1_result |-> NotCalled,
     stage2_result |-> NotCalled, classification |-> NotCalled,
     doc_type |-> JStr("OTHER"), attempt |-> 0, extract_calls |-> 0,
     endpoint_calls |-> 0, pauses |-> 0, attempts |-> <<>>,
     extraction |-> NotCalled, converse_calls |-> <<>>]

ResumedSharingCalls(saved) ==
    [saved EXCEPT !.classify_calls = classify_calls]
\* what an invocation finds when it runs again: its own locals, as it left them
Resumed(saved) == saved

\* the running invocation continues with the locals `frame`
Run(frame) ==
    /\ pc' = frame.pc
    /\ records' = frame.records
    /\ record_index' = frame.record_index
    /\ fetched' = frame.fetched
    /\ processed' = frame.processed
    /\ classify_calls' = frame.classify_calls
    /\ stage1_result' = frame.stage1_result
    /\ stage2_result' = frame.stage2_result
    /\ classification' = frame.classification
    /\ doc_type' = frame.doc_type
    /\ attempt' = frame.attempt
    /\ extract_calls' = frame.extract_calls
    /\ endpoint_calls' = frame.endpoint_calls
    /\ pauses' = frame.pauses
    /\ attempts' = frame.attempts
    /\ extraction' = frame.extraction
    /\ converse_calls' = frame.converse_calls

\* what an invocation has to show for a document: the classification, the
\* extraction result, the combined result and the calls it made upstream
OutcomeOf(frame) ==
    [classification |-> frame.classification,
     extraction |-> frame.extraction,
     processed |-> frame.processed,
     classify_calls |-> frame.classify_calls,
     extract_calls |-> frame.extract_calls,
     endpoint_calls |-> frame.endpoint_calls,
     converse_calls |-> frame.converse_calls]
KeyOf(frame) == frame.records[frame.record_index].key
Done(frame) == frame.pc \in {"combined", "failed"}

InitWorkers ==
    /\ pc = "fetch"
    /\ IdleParse
    /\ IdleClass
    /\ IdleRetry
    /\ ReliableAudit
    /\ IdlePipe
    /\ validated = NotCalled
    /\ \E key \in HandlerKeys : records = <<Body(key)>>
    /\ record_index = 1
    /\ document_id = None
    /\ documents_table = <<>>
    /\ put_items = <<>>
    /\ stored = NotCalled
    /\ response = NotCalled
    /\ invocations = 0
    /\ IdleWorkers
    /\ IdleCollector

\* an invocation that ran alone has ended: what it gave is noted and the
\* invocation for another document starts, alone as well
NextAlone(key) ==
    /\ parked = <<>>
    /\ Done(Locals)
    /\ alone = <<>>
    /\ key # CurrentKey
    /\ alone' = [k \in {CurrentKey} |-> OutcomeOf(Locals)]
    /\ Run(FreshLocals(key))
    /\ UNCHANGED <<parseVars, auditVars, validated, document_id, documents_table, put_items,
                   stored, response, invocations, parked, collectorVars>>

\* both documents were processed alone; now an invocation for each of them
\* starts, and the two run at once
StartWorkers ==
    /\ parked = <<>>
    /\ Done(Locals)
    /\ alone # <<>>
    /\ CurrentKey \notin DOMAIN alone
    /\ alone' = [k \in DOMAIN alone \cup {CurrentKey} |->
                    IF k = CurrentKey THEN OutcomeOf(Locals) ELSE alone[k]]
    /\ Run(FreshLocals(CurrentKey))
    /\ parked' = <<FreshLocals(CHOOSE k \in DOMAIN alone : TRUE)>>
    /\ UNCHANGED <<parseVars, auditVars, validated, document_id, documents_table, put_items,
                   stored, response, invocations, collectorVars>>

\* the scheduler lets the other invocation run
Switch ==
    /\ parked # <<>>
    /\ parked' = <<Locals>>
    /\ Run(Resumed(parked[1]))
    /\ UNCHANGED <<parseVars, auditVars, validated, document_id, documents_table, put_items,
                   stored, response, invocations, alone, collectorVars>>

NextWorkers ==
    \/ \E outcome \in SinkOutcomes(audit_sink) : Fetch(Replies.s3, outcome)
    \/ \E outcome \in SinkOutcomes(audit_sink) : Stage1(Replies.stage1, outcome)
    \/ \E outcome \in SinkOutcomes(audit_sink) : Stage2(Replies.stage2, outcome)
    \/ BeginExtraction
    \/ \E outcome \in SinkOutcomes(audit_sink) : Attempt(Replies.extract[attempt], outcome)
    \/ Pause
    \/ \E outcome \in SinkOutcomes(audit_sink) : Propagate(outcome)
    \/ Combine
    \/ \E key \in HandlerKeys : NextAlone(key)
    \/ StartWorkers
    \/ Switch
SpecWorkers == InitWorkers /\ [][NextWorkers]_vars

\* ------------------------------------------------------------------------
\* Failures of the inference endpoint and malformed replies
\* ------------------------------------------------------------------------

\* C22: once the document is fetched, no outcome of the inference calls
\* makes process_document_enhanced_with_retry end with an exception.
C22_NoInferenceFailureEscapes ==
    fetched.exc = "none" => pc # "failed"

\* C23: every result extract_with_retry returns has a confidence in [0,1].
C23_ExtractionConfidenceInUnit ==
    HasReturned => InUnit(extraction.val.confidence)

\* C24: whenever the endpoint answered an extraction call, whatever the text,
\* extract_with_specialized_prompt returned a result and raised nothing.
C24_MalformedOutputRecovered ==
    CallsEndpoint(doc_type) =>
        \A i \in DOMAIN attempts :
            converse_calls[i].kind = "ok" => attempts[i].call.exc = "none"

\* ------------------------------------------------------------------------
\* The pause of the retry loop
\* ------------------------------------------------------------------------

\* C28: the loop pauses exactly once after a failed first attempt, between
\* attempt 1 and attempt 2, and never after an accepted or a final attempt:
\* the pauses number attempts_made - 1.
C28_PauseOnlyBetweenAttempts ==
    /\ pc = "pause" =>
          /\ attempt = 1 /\ Len(attempts) = 1 /\ pauses = 0
          /\ AttemptRaised(1) \/ AttemptRejected(1)
    /\ (pc = "attempt" /\ attempt = 2) =>
          /\ pauses = 1 /\ Len(attempts) = 1
          /\ AttemptRaised(1) \/ AttemptRejected(1)
    /\ (pc = "attempt" /\ attempt = 1) => pauses = 0
    /\ HasReturned =>
          /\ pauses = Metadata.attempts_made - 1
          /\ AttemptAccepted(1) => pauses = 0
          /\ Started(2) => pauses = 1
C28_Witness ==
    /\ HasReturned
    /\ AttemptRejected(1)
    /\ AttemptRaised(2)
    /\ pauses = 1
    /\ Metadata.attempts_made = 2

\* ------------------------------------------------------------------------
\* The adapters and the endpoint
\* ------------------------------------------------------------------------

\* the last piece of an exception's message
LastPiece(outcome) == outcome.msg[Len(outcome.msg)]
\* the adapter outcome that belongs to the k-th bedrock.converse call
FailedCallSurfaced(call, outcome) ==
    call.kind # "ok" =>
        /\ outcome.exc \notin {"none", "NotCalled"}
        /\ LastPiece(outcome) = call.msg

\* C29: an adapter invocation makes at most one bedrock.converse call, and a
\* failed call makes the adapter raise an error that carries the upstream
\* message; the endpoint is not called again by the adapter.
C29_AdaptersNeverRetry ==
    /\ Len(converse_calls) <= Len(classify_calls) + extract_calls
    /\ Len(converse_calls) = Len(classify_calls) + endpoint_calls
    /\ endpoint_calls <= extract_calls
    /\ \A i \in DOMAIN classify_calls : converse_calls[i].model_id = classify_calls[i]
    /\ Len(classify_calls) >= 1 => FailedCallSurfaced(converse_calls[1], stage1_result)
    /\ Len(classify_calls) >= 2 => FailedCallSurfaced(converse_calls[2], stage2_result)
    /\ CallsEndpoint(doc_type) =>
          \A i \in DOMAIN attempts :
              /\ converse_calls[Len(classify_calls) + i].model_id = EXTRACTION_MODEL
              /\ FailedCallSurfaced(converse_calls[Len(classify_calls) + i], attempts[i].call)
C29_Witness ==
    /\ pc = "combined"
    /\ Len(converse_calls) = 4
    /\ converse_calls[3].kind = "ClientError"
    /\ attempts[1].call = Raised("Exception", <<"Bedrock extraction failed: ", "ThrottlingException">>)
    /\ converse_calls[4].kind = "ok"

\* ------------------------------------------------------------------------
\* The two normalisations of a raw confidence
\* ------------------------------------------------------------------------

\* C30: for every raw confidence a response carries, validate_confidence_score
\* returns the confidence parse_claude_classification_response returns.
C30_UniformParseOrDefault ==
    validated # NotCalled =>
        /\ validated.exc = "none"
        /\ p_result.exc = "none"
        /\ validated.val = p_result.val.confidence

\* ------------------------------------------------------------------------
\* The documents table
\* ------------------------------------------------------------------------

\* the call of store_document_results_enhanced for the current record
StoreCalled == stored # NotCalled /\ records[record_index].valid

\* C21: a failed write to the documents table is logged and swallowed:
\* store_document_results_enhanced does not raise, and the invocation whose
\* last document was classified and extracted answers 200 either way.
C21_StoreFailureSwallowed ==
    /\ stored.exc \in {"NotCalled", "none"}
    /\ (pc = "responded" /\ StoreCalled /\ record_index = Len(records)) =>
           response.val.statusCode = 200

\* the source key of an item, and an item without its document id
SourceKey(item) == item.items.source_key
Anonymous(item) == [k \in DOMAIN item.items \ {"document_id"} |-> item.items[k]]

\* C26: processing the same document reference again gives the same record
\* and leaves a single item for that document in the documents table.
C26_IdempotentPerDocument ==
    /\ \A i, j \in DOMAIN put_items :
          SourceKey(put_items[i].record) = SourceKey(put_items[j].record) =>
              Anonymous(put_items[i].record) = Anonymous(put_items[j].record)
    /\ \A a, b \in DOMAIN documents_table :
          SourceKey(documents_table[a]) = SourceKey(documents_table[b]) => a = b

\* `after` is `before` with every float replaced by the Decimal of its
\* repr, and the same keys, positions and other values
RECURSIVE FloatsReplaced(_, _)
FloatsReplaced(before, after) ==
    IF IsFloat(before) THEN after = PyDecimal(DecimalOfStr(before).val)
    ELSE IF before.t \in {"dict", "list"}
    THEN /\ after.t = before.t
         /\ DOMAIN Items(after) = DOMAIN Items(before)
         /\ \A k \in DOMAIN Items(before) : FloatsReplaced(Items(before)[k], Items(after)[k])
    ELSE after = before

\* C27: convert_floats_to_decimal replaces every float at any depth of dicts
\* and lists and changes nothing else, so no item handed to put_item holds a
\* binary float.
C27_NoFloatReachesTheStore ==
    \A i \in DOMAIN put_items :
        /\ ~HasFloat(put_items[i].Item)
        /\ FloatsReplaced(put_items[i].record, put_items[i].Item)
        /\ put_items[i].outcome # "TypeError"
C27_Witness ==
    \E i \in DOMAIN put_items :
        /\ put_items[i].outcome = "ok"
        /\ put_items[i].record.items.extracted_fields = JObject(NestedFields)
        /\ HasFloat(put_items[i].record.items.extracted_fields.items.line_items.items[2])
        /\ put_items[i].Item.items.extracted_fields.items.credit_amount.items.tolerance.items[2]
              = JObject([upper |-> PyDecimal(Tenths(1))])
        /\ put_items[i].Item.items.extracted_fields.items.line_items.items[3] = PyDecimal(DecNaN)
        /\ documents_table[document_id[1]] = put_items[i].Item

\* ------------------------------------------------------------------------
\* Invocations that run at once
\* ------------------------------------------------------------------------

\* two invocations are in flight
AtOnce == parked # <<>>

\* C25: under every interleaving of two invocations on different documents,
\* each ends with the classification, the extraction result and the upstream
\* calls it had when it ran alone.
C25_WorkersIndependent ==
    AtOnce =>
        /\ KeyOf(Locals) # KeyOf(parked[1])
        /\ Done(Locals) => OutcomeOf(Locals) = alone[KeyOf(Locals)]
        /\ Done(parked[1]) => OutcomeOf(parked[1]) = alone[KeyOf(parked[1])]
C25_Witness ==
    /\ AtOnce
    /\ Done(Locals)
    /\ Done(parked[1])
    /\ KeyOf(Locals) = "lc.png"
    /\ KeyOf(parked[1]) = "invoice.png"
    /\ Len(classify_calls) = 1
    /\ Len(parked[1].classify_calls) = 2
    /\ extract_calls = 2
    /\ parked[1].extract_calls = 1
    /\ \E i \in DOMAIN audit_trail :
          /\ i + 3 <= Len(audit_trail)
          /\ audit_trail[i].event_type = "S3_DOWNLOAD_STARTED"
          /\ audit_trail[i + 2].event_type = "S3_DOWNLOAD_STARTED"


\* ---------------------------------------------------------------------
\* The loop of extract_with_retry and its fallback (lines 379-477)
\* ---------------------------------------------------------------------

\* C31: the return after the loop (attempts_made = 0, logic_error = true) is
\* never taken: no exception leaves extract_with_retry, and every result it
\* returns was built inside the loop, carries no logic_error key, has all of
\* extracted_fields, confidence and retry_metadata, and has attempts_made
\* equal to 1 or 2.
C31_FallbackUnreachable ==
    /\ pc # "raised"
    /\ pc = "pause" => LoopHasNext(attempt)
    /\ pc = "returned" =>
          /\ extraction.exc = "none"
          /\ extraction.val # LogicErrorResult
          /\ "logic_error" \notin Metadata.keys
          /\ {"attempts_made", "success_on_attempt", "validation_passed"}
                \subseteq Metadata.keys
          /\ Metadata.attempts_made \in 1..MAX_EXTRACTION_ATTEMPTS
          /\ Metadata.attempts_made = Len(attempts)

\* C31 witness: the second attempt was rejected too, the last point before
\* the end of the loop, and the best-effort result was returned from inside it
C31_Witness ==
    /\ HasReturned
    /\ AttemptRejected(1)
    /\ AttemptRejected(2)
    /\ pauses = 1
    /\ Metadata.attempts_made = 2
    /\ "logic_error" \notin Metadata.keys


\* ---------------------------------------------------------------------
\* The order of the inference calls of one document (lines 163-221, 370-477
\* and 575-583)
\* ---------------------------------------------------------------------

\* the calls made so far are classification calls followed by extraction calls
CallsInOrder ==
    /\ Len(classify_calls) <= 2
    /\ Len(classify_calls) >= 1 =>
          classify_calls[1] = "anthropic.claude-3-haiku-20240307-v1:0"
    /\ Len(classify_calls) = 2 =>
          classify_calls[2] = "anthropic.claude-3-sonnet-20240229-v1:0"
    /\ endpoint_calls <= 2
    /\ extract_calls <= 2
    /\ Len(converse_calls) = Len(classify_calls) + endpoint_calls
    /\ Len(converse_calls) <= 4
    /\ \A i \in DOMAIN converse_calls :
          converse_calls[i].model_id =
             IF i <= Len(classify_calls) THEN classify_calls[i] ELSE EXTRACTION_MODEL

\* classification has settled: smart_classify_document returned its result
ClassificationSettled ==
    /\ classification.exc = "none"
    /\ Len(classify_calls) >= 1
    /\ pc \notin {"fetch", "stage1", "stage2"}

\* a step that calls the endpoint for a classification, for an extraction
ClassificationCall == classify_calls' # classify_calls
ExtractionCall == endpoint_calls' # endpoint_calls

\* C32: in one run of process_document_enhanced_with_retry the first call
\* goes to the cheap model, a second classification call, if any, goes to
\* the expensive model, and at most two extraction calls follow; every
\* extraction call is made after classification has settled, no
\* classification call is made once extraction has begun, and the document
\* costs at most 4 calls.
C32_CallOrder ==
    /\ [](CallsInOrder /\ (extract_calls > 0 => ClassificationSettled))
    /\ [][/\ ExtractionCall =>
               ClassificationSettled /\ UNCHANGED <<classify_calls, classification>>
          /\ ClassificationCall =>
               /\ extract_calls = 0 /\ endpoint_calls = 0
               /\ classification = NotCalled
               /\ Len(converse_calls') = Len(converse_calls) + 1]_vars

\* C32 witness: a document that took all four calls: cheap, expensive, and
\* two extraction calls
C32_Witness ==
    /\ pc = "combined"
    /\ classify_calls = <<CLASSIFICATION_MODELS.cheap, CLASSIFICATION_MODELS.expensive>>
    /\ endpoint_calls = 2
    /\ Len(converse_calls) = 4
    /\ converse_calls[1].model_id = CLASSIFICATION_MODELS.cheap
    /\ processed.val.extraction_retry_metadata.attempts_made = 2


\* ---------------------------------------------------------------------
\* The audit events of one extract_with_retry run (lines 379-469)
\* ---------------------------------------------------------------------

\* the events that end a run (lines 395, 420 and 450)
TerminalEvents ==
    {"EXTRACTION_SUCCESS", "EXTRACTION_MAX_ATTEMPTS_REACHED", "EXTRACTION_COMPLETELY_FAILED"}

\* the positions in the audit trail of the events of the given types
EventsAt(types) == {i \in DOMAIN audit_trail : audit_trail[i].event_type \in types}
StartedAt == EventsAt({"EXTRACTION_ATTEMPT_STARTED"})
UpstreamAt == EventsAt({"BEDROCK_EXTRACTION_STARTED"})
TerminalAt == EventsAt(TerminalEvents)

\* how many attempts were started up to position i of the trail
StartedUpTo(i) == Cardinality({j \in StartedAt : j <= i})

\* C33: with a trail that records every event, each attempt of
\* extract_with_retry has one EXTRACTION_ATTEMPT_STARTED event carrying its
\* number (1 for the first, 2 for the second); every upstream extraction call
\* comes directly after the started event of its attempt; at most one terminal
\* event is in the trail, it is the last event, and exactly one is there once
\* the function has returned; after it no event is emitted and no attempt or
\* upstream call is made.
C33_AuditFollowsTransitions ==
    /\ [](/\ Cardinality(StartedAt) = extract_calls
          /\ \A i \in StartedAt : audit_trail[i].attempt_number = StartedUpTo(i)
          /\ Cardinality(UpstreamAt) = endpoint_calls
          /\ \A i \in UpstreamAt :
                /\ i - 1 \in StartedAt
                /\ audit_trail[i - 1].attempt_number = StartedUpTo(i)
          /\ Cardinality(TerminalAt) <= 1
          /\ \A i \in TerminalAt :
                /\ i = Len(audit_trail)
                /\ audit_trail[i].attempt_number = extract_calls
          /\ pc = "returned" <=> TerminalAt # {})
    /\ [][TerminalAt # {} =>
             UNCHANGED <<audit_trail, extract_calls, endpoint_calls, attempt>>]_vars

\* C33 witness: a run whose first upstream call failed and whose second
\* attempt was accepted: two started events, two upstream calls, and
\* EXTRACTION_SUCCESS of attempt 2 as the last event
C33_Witness ==
    /\ pc = "returned"
    /\ endpoint_calls = 2
    /\ Cardinality(StartedAt) = 2
    /\ CallRaised(1)
    /\ audit_trail[Len(audit_trail)] = Event("EXTRACTION_SUCCESS", 2)
    /\ Event("EXTRACTION_ATTEMPT_FAILED", 1) \in Range(audit_trail)


\* ---------------------------------------------------------------------
\* retry_metadata of the results returned from inside the loop (lines 402-465)
\* ---------------------------------------------------------------------

\* C36: in every result extract_with_retry has returned, validation_passed is
\* true exactly when success_on_attempt is not None, a success_on_attempt
\* that is not None equals attempts_made, and attempts_made is the number of
\* attempts that were started; validation_passed is true exactly when the
\* last attempt was accepted by the validator.
C36_RetryMetadataConsistent ==
    HasReturned =>
        /\ {"attempts_made", "success_on_attempt", "validation_passed"} \subseteq Metadata.keys
        /\ Metadata.validation_passed <=> Metadata.success_on_attempt # None
        /\ Metadata.success_on_attempt # None =>
              Metadata.success_on_attempt = Some(Metadata.attempts_made)
        /\ Metadata.attempts_made = Len(attempts)
        /\ Metadata.attempts_made = extract_calls
        /\ Metadata.attempts_made = attempt
        /\ Metadata.validation_passed <=> AttemptAccepted(Len(attempts))

\* C36 witness: a rejected first attempt followed by a second attempt that
\* was rejected as well, returned as best effort with its issues
C36_Witness ==
    /\ HasReturned
    /\ AttemptRejected(1)
    /\ AttemptRejected(2)
    /\ Metadata.success_on_attempt = None
    /\ ~Metadata.validation_passed
    /\ Metadata.final_attempt_issues # <<>>
    /\ Metadata.attempts_made = 2


\* ---------------------------------------------------------------------
\* Results without fields (lines 479-532 and 338-344)
\* ---------------------------------------------------------------------

\* Decimal confidences of a result: -0.2, 0, 0.29, 0.3, 0.8, 1, 1.5,
\* Infinity and NaN
ResultConfidences ==
    {Fin(u) : u \in {0 - 2 * (ONE \div 10), 0, 29 * (ONE \div 100), 3 * (ONE \div 10),
                     8 * (ONE \div 10), ONE, 15 * (ONE \div 10)}}
    \cup {DecInf, DecNaN}

\* what the validator says of a result with an empty dict of fields
ZeroFieldVerdict(confidence, document_type) ==
    validate_extraction_quality([extracted_fields |-> PyDict(NoObject),
                                 confidence |-> confidence], document_type)

\* a verdict on a result without fields: both issues, at most 0.3, rejected
RejectsZeroFields(verdict) ==
    /\ ~verdict.is_acceptable
    /\ "no_fields_extracted" \in Range(verdict.issues)
    /\ "critical_fields_mostly_empty" \in Range(verdict.issues)
    /\ verdict.quality_score.u <= 3 * (ONE \div 10)

\* attempt i got a response that json.loads refused
NonJsonResponse(i) ==
    /\ Started(i)
    /\ attempts[i].call.exc = "none"
    /\ JsonLoads(attempts[i].call.val.raw_response).exc # "none"

\* C37: validate_extraction_quality never accepts a result with zero
\* extracted fields, for every confidence and every document type: its
\* verdict carries no_fields_extracted and critical_fields_mostly_empty and a
\* score of at most 0.3 (or the validator raises, on a NaN confidence); an
\* attempt whose result has no fields is never the accepted one, and an
\* attempt whose response was not JSON has empty fields and confidence 0.3,
\* is rejected with score 0.30, and the run goes on to the pause or, on
\* the last attempt, to the best-effort return.
C37_ZeroFieldsNeverAccepted ==
    /\ \A dt \in DocumentTypeValues, d \in ResultConfidences :
          /\ ZeroFieldVerdict(d, dt).exc = "none" <=> d # DecNaN
          /\ ZeroFieldVerdict(d, dt).exc = "none" => RejectsZeroFields(ZeroFieldVerdict(d, dt).val)
    /\ \A i \in DOMAIN attempts :
          attempts[i].call.exc = "none" /\ FieldCount(i) = 0 =>
             /\ ~AttemptAccepted(i)
             /\ attempts[i].validation.exc = "none" =>
                   RejectsZeroFields(attempts[i].validation.val)
             /\ HasReturned /\ i = Len(attempts) => ~Metadata.validation_passed
    /\ \A i \in DOMAIN attempts :
          NonJsonResponse(i) =>
             /\ attempts[i].call.val.extracted_fields = PyDict(NoObject)
             /\ attempts[i].call.val.confidence = Tenths(3)
             /\ AttemptRejected(i)
             /\ attempts[i].validation.val.quality_score = Tenths(3)
             /\ attempts[i].validation.val.issues =
                   <<"no_fields_extracted", "critical_fields_mostly_empty">>
             /\ i = Len(attempts) =>
                   IF IsFinalAttempt(i)
                   THEN HasReturned /\ ~Metadata.validation_passed
                   ELSE pc = "pause" \/ (pc = "attempt" /\ attempt = i + 1)

\* C37 witness: both attempts got a response that was not JSON, and the
\* second one was returned as best effort with no fields and confidence 0.3
C37_Witness ==
    /\ HasReturned
    /\ NonJsonResponse(1)
    /\ NonJsonResponse(2)
    /\ extraction.val.extracted_fields = PyDict(NoObject)
    /\ extraction.val.confidence = Tenths(3)
    /\ Metadata.attempts_made = 2


\* ---------------------------------------------------------------------
\* Document types without an extraction prompt (lines 284, 364-368, 438-465)
\* ---------------------------------------------------------------------

\* the document type is neither of the two that have a prompt
NoPromptType ==
    doc_type \notin {JStr("LETTER_OF_CREDIT"), JStr("COMMERCIAL_INVOICE")}

\* the message of the ValueError of line 368
NoPromptMessage == <<"No prompt found for document type: ", doc_type.s>>

\* C38: for a document type without an extraction prompt (BILL_OF_LADING,
\* OTHER) extract_with_retry never calls the inference endpoint and never
\* raises; each attempt ends with the ValueError of the prompt lookup, the
\* function returns only after two attempts and one pause, and what it
\* returns is the terminal result: empty fields, confidence 0.1,
\* attempts_made = 2, success_on_attempt = None, validation_passed = false
\* and the lookup's message as final_error.
C38_NoPromptTerminalResult ==
    NoPromptType =>
        /\ endpoint_calls = 0
        /\ converse_calls = <<>>
        /\ UpstreamAt = {}
        /\ pc # "raised"
        /\ \A i \in DOMAIN attempts :
              /\ attempts[i].call = Raised("ValueError", NoPromptMessage)
              /\ attempts[i].validation = NotCalled
        /\ pauses = (IF Len(attempts) = 2 \/ (pc = "attempt" /\ attempt = 2) THEN 1 ELSE 0)
        /\ pc = "returned" =>
              /\ extract_calls = 2
              /\ Len(attempts) = 2
              /\ pauses = 1
              /\ extraction = Returned(TerminalResult(NoPromptMessage, 2))
              /\ extraction.val.extracted_fields = PyDict(NoObject)
              /\ extraction.val.confidence = Tenths(1)
              /\ Metadata.attempts_made = 2
              /\ Metadata.success_on_attempt = None
              /\ ~Metadata.validation_passed

\* C38 witness: a run for the parser's fallback type OTHER that has returned
C38_Witness ==
    /\ doc_type = JStr("OTHER")
    /\ HasReturned
    /\ endpoint_calls = 0
    /\ extract_calls = 2
    /\ pauses = 1
    /\ Metadata.final_error = Some(NoPromptMessage)


\* ---------------------------------------------------------------------
\* Substituted stage-1 confidences and the escalation (lines 81-125, 183)
\* ---------------------------------------------------------------------

\* the response carries a confidence the parser can keep: a JSON object whose
\* confidence key converts to a Decimal in [0,1]
CarriesConfidence(text) ==
    /\ IsJsonObject(text)
    /\ "confidence" \in DOMAIN text.obj
    /\ DecimalOfStr(text.obj["confidence"]).exc = "none"
    /\ InUnit(DecimalOfStr(text.obj["confidence"]).val)

\* stage 1 returned a result whose confidence the parser had to substitute
Stage1Substituted ==
    /\ Stage1Returned
    /\ ~CarriesConfidence(stage1_result.val.raw_response)

\* C39: when the parser substituted the stage-1 confidence (text that is no
\* JSON object, a missing, non-numeric or out-of-range confidence) the
\* substituted value is 0.3 or 0.5, below 0.8, and smart_classify_document
\* goes on to the expensive model: it never returns the cheap tier's result,
\* and every result it returns has escalated = true and took two calls.
C39_DefaultedConfidenceEscalates ==
    Stage1Substituted =>
        /\ stage1_result.val.confidence \in {Tenths(3), Tenths(5)}
        /\ stage1_result.val.confidence.u < 8 * (ONE \div 10)
        /\ Len(classify_calls) = 1 => pc = "stage2" /\ classification = NotCalled
        /\ pc = "classified" =>
              /\ Len(classify_calls) = 2
              /\ classify_calls[2] = "anthropic.claude-3-sonnet-20240229-v1:0"
              /\ classification.val.escalated
              /\ classification.val.model_used = "anthropic.claude-3-sonnet-20240229-v1:0"
              /\ classification.val.confidence = stage2_result.val.confidence

\* C39 witness: stage 1 answered with an object that has no confidence key,
\* the parser put 0.5, and the expensive model's result was returned
C39_Witness ==
    /\ pc = "classified"
    /\ Stage1Substituted
    /\ IsJsonObject(stage1_result.val.raw_response)
    /\ "confidence" \notin DOMAIN stage1_result.val.raw_response.obj
    /\ stage1_result.val.confidence = Tenths(5)
    /\ classification.val.escalated
    /\ Len(classify_calls) = 2


\* ---------------------------------------------------------------------
\* The outcome of one lambda_handler invocation (lines 757-825)
\* ---------------------------------------------------------------------

\* the invocation has returned its response, and the status code of it
Responded == pc = "responded"
StatusCode == response.val.statusCode
\* the puts that succeeded, and the document id of a put
PutOk(k) == put_items[k].outcome = "ok"
PutId(k) == CHOOSE id \in Uuids : put_items[k].record.items.document_id = PyStr(<<"doc_", id>>)
\* the item of put k is in the table unless a later put replaced it
Remains(k) ==
    /\ PutId(k) \in DOMAIN documents_table
    /\ (\A j \in DOMAIN put_items : j > k /\ PutOk(j) => PutId(j) # PutId(k)) =>
          documents_table[PutId(k)] = put_items[k].Item

\* C40: an invocation of lambda_handler always ends with a response, never
\* with an exception. In the first invocation, statusCode 200 means that
\* every record of the event was decoded, processed and stored; statusCode
\* 500 means that the record the loop was at failed (its body, its processing
\* or its store) while all records before it were stored, that no record
\* after it was touched, and that the items stored before are still in the
\* table. The step that answers 500 changes neither the table nor the puts,
\* and after the response no call is made for the event.
C40_HandlerNeverRaises ==
    /\ [](/\ Responded <=> response # NotCalled
          /\ Responded => response.exc = "none" /\ StatusCode \in {200, 500}
          /\ \A k \in DOMAIN put_items : PutOk(k) => Remains(k)
          /\ invocations = 1 =>
                /\ Len(put_items) <= record_index
                /\ \A k \in DOMAIN put_items : k < Len(put_items) => PutOk(k)
                /\ \A k \in DOMAIN put_items :
                      SourceKey(put_items[k].record) = PyStr(<<records[k].key>>)
                /\ (Responded /\ StatusCode = 200) =>
                      /\ record_index = Len(records)
                      /\ Len(put_items) = Len(records)
                      /\ \A k \in DOMAIN records : records[k].valid /\ PutOk(k)
                /\ (Responded /\ StatusCode = 500) =>
                      /\ record_index >= 1
                      /\ \A k \in 1..(record_index - 1) : records[k].valid /\ PutOk(k)
                      /\ \/ ~records[record_index].valid /\ Len(put_items) = record_index - 1
                         \/ /\ processed.exc # "none"
                            /\ Len(put_items) = record_index - 1
                         \/ /\ stored.exc \notin {"none", "NotCalled"}
                            /\ Len(put_items) = record_index
                            /\ ~PutOk(record_index))
    /\ [][(~Responded /\ Responded' /\ response'.val.statusCode = 500) =>
             UNCHANGED <<documents_table, put_items, converse_calls>>]_vars
    /\ [][Responded =>
             UNCHANGED <<documents_table, put_items, converse_calls, records>>]_vars

\* C40 witness: an event of three records whose first record was stored and
\* whose second failed: the answer is 500, the third record was not
\* started, and the first record's item is in the table
C40_Witness ==
    /\ Responded
    /\ invocations = 1
    /\ StatusCode = 500
    /\ Len(records) = 3
    /\ record_index = 2
    /\ records[3].valid
    /\ PutOk(1)
    /\ documents_table[PutId(1)] = put_items[1].Item
    /\ processed.exc # "none"


\* ------------------------------------------------------------------------
\* The FCA register collector (src/src/agents/fca-register-collector.py)
\* ------------------------------------------------------------------------

\* most search terms of one collection, most finished runs, last hour of
\* the clock
MaxTerms == 2
MaxRuns == 2
MaxClock == 50

\* Texts are sequences of lower-case words (the source lower-cases names
\* before it compares them) with the separator between the words and a prefix.
Words(prefix, words, sep) == [prefix |-> prefix, words |-> words, sep |-> sep]
Phrase(words) == Words("", words, " ")

\* `part in text` on lower-case texts: the words of `part` in a row inside
\* `text`, a word counting when it holds the part
WordHas(word, part) ==
    word = part \/ <<part, word>> \in {<<"bank", "banking">>, <<"payment", "payments">>}
Within(part, text) ==
    \E i \in 1..(Len(text) - Len(part) + 1) :
        \A j \in 1..Len(part) : WordHas(text[i + j - 1], part[j])

\* dict.get(key) on a dict, as None or the value
PyGet(d, key) == IF key \in DOMAIN d THEN Some(d[key]) ELSE None

\* line 27
CACHE_TTL_HOURS == 24

\* lines 536-540: the age after which an item is looked up again
TtlHours(api_source) ==
    CASE api_source = "FCA_SEARCH" -> 24
      [] api_source = "FCA_BANK_VALIDATION" -> 12
      [] api_source = "FCA_KEY_BANKS" -> 6
      [] OTHER -> CACHE_TTL_HOURS

\* the key of an item of the cache table
CacheKey(api_source, cache_key) == <<api_source, cache_key>>

\* lines 132 and 146: f"search_{search_term.replace(' ', '_')}"
SearchCacheKey(search_term) == Words("search_", search_term, "_")
\* line 170: f"bank_{bank_name.replace(' ', '_').lower()}"
BankCacheKey(bank_name) == Words("bank_", bank_name, "_")

\* lines 510-546: no item under the key, or an item older than its ttl
should_refresh_cache(api_source, cache_key, table, now) ==
    IF CacheKey(api_source, cache_key) \notin DOMAIN table THEN TRUE
    ELSE now - table[CacheKey(api_source, cache_key)].last_updated > TtlHours(api_source)

\* json.dumps(data, default=str) and json.loads of it, on JSON values
json_dumps(data) == [json |-> data]
json_loads(text) == text.json

\* lines 548-571
load_from_cache(table, api_source, cache_key) ==
    IF CacheKey(api_source, cache_key) \in DOMAIN table
    THEN Some(json_loads(table[CacheKey(api_source, cache_key)].data))
    ELSE None

\* lines 573-596: the table after a put_item that worked
store_in_cache(table, api_source, cache_key, data, ttl_hours, now) ==
    PutItem(table, CacheKey(api_source, cache_key),
            [api_source |-> api_source,
             cache_key |-> cache_key,
             last_updated |-> now,
             data |-> json_dumps(data),
             ttl |-> now + ttl_hours])

\* lines 103-112 (the first MaxTerms of the eight terms are collected)
trade_finance_searches ==
    <<<<"documentary", "credit">>, <<"letter", "of", "credit">>,
      <<"international", "banking">>, <<"correspondent", "banking">>,
      <<"trade", "finance">>, <<"export", "finance">>, <<"import", "finance">>,
      <<"commercial", "banking">>>>
SearchTerms == SubSeq(trade_finance_searches, 1, Min(MaxTerms, Len(trade_finance_searches)))

\* firms of the register, as the API describes them
Firm(name, status, permissions) ==
    [Name |-> name, Status |-> status, Permissions |-> permissions]
HsbcFirm == Firm(<<"hsbc", "bank", "plc">>, "authorised", <<<<"banking">>, <<"credit">>>>)
LapsedFirm == Firm(<<"hsbc", "trust", "company">>, "no longer authorised", <<<<"banking">>>>)
DeltaFirm == Firm(<<"delta", "payments">>, "authorised", <<<<"payment", "services">>>>)
AcmeFirm == Firm(<<"acme", "insurance", "ltd">>, "authorised", <<<<"insurance">>>>)

\* lines 481-485 and 492-495
trade_finance_keywords ==
    {<<"bank">>, <<"banking">>, <<"international">>, <<"trade">>, <<"export">>,
     <<"import">>, <<"commercial">>, <<"correspondent">>, <<"hsbc">>, <<"barclays">>,
     <<"lloyds">>, <<"natwest">>, <<"standard", "chartered">>, <<"santander">>}
trade_permissions ==
    {<<"banking">>, <<"deposit", "taking">>, <<"credit">>, <<"payment", "services">>,
     <<"correspondent", "banking">>, <<"trade", "finance">>, <<"documentary", "credit">>}

\* lines 434-451: the permissions of a firm, each once
extract_trade_finance_permissions(firm) == Range(firm.Permissions)

\* lines 469-508
calculate_trade_finance_relevance(firm, search_context) ==
    2 * Cardinality({k \in trade_finance_keywords : Within(k, firm.Name)})
    + 3 * Cardinality({perm \in extract_trade_finance_permissions(firm) :
                          \E t \in trade_permissions : Within(t, perm)})
    + (IF \E w \in Range(search_context) : Within(<<w>>, firm.Name) THEN 1 ELSE 0)

\* lines 339-369: the firms with a relevance above 0, in the order given
process_firms_for_trade_finance(firms_data, search_term) ==
    LET Relevant(firm) == calculate_trade_finance_relevance(firm, search_term) > 0
        kept == SelectSeq(firms_data.data, Relevant)
    IN  [i \in 1..Len(kept) |->
            [firm_name |-> kept[i].Name,
             status |-> kept[i].Status,
             permissions |-> extract_trade_finance_permissions(kept[i]),
             trade_finance_relevance |->
                calculate_trade_finance_relevance(kept[i], search_term),
             source_search |-> search_term]]

\* lines 192-198 and 377-384: the verdict on a bank the register does not have
NotFoundResult(bank_name) ==
    [bank_name |-> bank_name, is_authorized |-> FALSE, fca_status |-> "NOT_FOUND",
     risk_level |-> "HIGH"]

\* lines 373-432: the verdict on the first firm of the bank data
process_bank_for_lc_validation(bank_data, bank_name) ==
    IF bank_data.data = <<>> THEN NotFoundResult(bank_name)
    ELSE LET firm == bank_data.data[1]
             permissions == extract_trade_finance_permissions(firm)
             has_banking_permissions ==
                 \E perm \in permissions :
                     perm \in {<<"banking">>, <<"deposit", "taking">>, <<"credit">>,
                               <<"payment", "services">>}
             trade_finance_score == calculate_trade_finance_relevance(firm, bank_name)
             is_authorized == firm.Status = "authorised" /\ has_banking_permissions
         IN  [bank_name |-> bank_name,
              fca_firm_name |-> firm.Name,
              is_authorized |-> is_authorized,
              fca_status |-> firm.Status,
              permissions |-> permissions,
              trade_finance_score |-> trade_finance_score,
              risk_level |-> IF ~is_authorized THEN "HIGH"
                             ELSE IF trade_finance_score > 5 THEN "LOW" ELSE "MEDIUM"]

\* lines 309-314: the name, the name without plc, without bank, its first word
SearchVariations(bank_name) ==
    LET NotPlc(w) == w # "plc"
        NotBank(w) == w # "bank"
    IN  {bank_name, SelectSeq(bank_name, NotPlc), SelectSeq(bank_name, NotBank),
         <<bank_name[1]>>}

\* lines 302-337: the register answers each variation with `answer`; the
\* firms whose name holds a variation are returned, or None
search_fca_register_by_name(bank_name, answer) ==
    IF answer = None THEN None
    ELSE LET Matching(firm) == \E v \in SearchVariations(bank_name) : Within(v, firm.Name)
             matching_firms == SelectSeq(answer[1].data, Matching)
         IN  IF matching_firms = <<>> THEN None
             ELSE Some([data |-> matching_firms, search_term |-> bank_name])

\* what search_fca_register returns: None (rate limit, error status, no
\* connection) or the decoded body
SearchAnswers == {None, Some([data |-> <<>>]), Some([data |-> <<HsbcFirm, AcmeFirm>>])}
BankAnswers ==
    {None, Some([data |-> <<>>]), Some([data |-> <<HsbcFirm>>]),
     Some([data |-> <<LapsedFirm>>]), Some([data |-> <<DeltaFirm, AcmeFirm>>])}
Banks == {<<"hsbc", "bank", "plc">>, <<"delta", "payments">>}
\* what cache_table.put_item does
CachePuts == {"ok", "ClientError"}

\* lines 116-121: the results dict of a collection
EmptyResults ==
    [total_firms |-> 0, cache_updates |-> 0, api_calls |-> 0, search_results |-> <<>>]

\* lines 137-140 and 148-150: the processed firms are added to the results
WithFirms(results, search_term, processed_firms) ==
    [results EXCEPT !.search_results = (search_term :> processed_firms) @@ @,
                    !.total_firms = @ + Len(processed_firms)]

\* lines 120-153: one search term of collect_all_trade_finance_firms; an
\* exception of store_in_cache is caught at line 151 and the loop goes on
SearchStep(results, search_term, answer, put, table, now) ==
    IF should_refresh_cache("FCA_SEARCH", Phrase(search_term), table, now)
    THEN LET called == [results EXCEPT !.api_calls = @ + 1]
         IN  IF answer = None \/ put # "ok"
             THEN [results |-> called, table |-> table, source |-> "api", stored |-> FALSE]
             ELSE [results |->
                      WithFirms([called EXCEPT !.cache_updates = @ + 1], search_term,
                                process_firms_for_trade_finance(answer[1], search_term)),
                   table |-> store_in_cache(table, "FCA_SEARCH", SearchCacheKey(search_term),
                                            answer[1], CACHE_TTL_HOURS, now),
                   source |-> "api", stored |-> TRUE]
    ELSE LET cached_data == load_from_cache(table, "FCA_SEARCH", SearchCacheKey(search_term))
         IN  [results |-> IF cached_data # None
                          THEN WithFirms(results, search_term,
                                         process_firms_for_trade_finance(cached_data[1],
                                                                         search_term))
                          ELSE results,
              table |-> table, source |-> "cache", stored |-> FALSE]

\* the dict validate_specific_bank returns
BankResult(total_firms, cache_updates, api_calls, bank_validation) ==
    [total_firms |-> total_firms, cache_updates |-> cache_updates,
     api_calls |-> api_calls, bank_validation |-> bank_validation]

\* line 213: cached_result and cached_result.get('is_authorized')
CachedAuthorized(cached_result) ==
    cached_result # None /\ PyGet(cached_result[1], "is_authorized") = Some(TRUE)

\* lines 160-221: a lookup that is due stores the bank data (or the
\* not-found verdict) and returns the verdict; otherwise the cached data is
\* returned as the verdict; an exception of store_in_cache is raised again
validate_specific_bank(table, bank_name, answer, put, now) ==
    LET cache_key == BankCacheKey(bank_name)
        bank_data == search_fca_register_by_name(bank_name, answer)
    IN  IF should_refresh_cache("FCA_BANK_VALIDATION", cache_key, table, now)
        THEN IF put # "ok"
             THEN [outcome |-> Raised("ClientError", <<"ProvisionedThroughputExceeded">>),
                   table |-> table, source |-> "api", stored |-> FALSE]
             ELSE IF bank_data # None
             THEN LET validation_result ==
                          process_bank_for_lc_validation(bank_data[1], bank_name)
                  IN  [outcome |->
                          Returned(BankResult(IF validation_result.is_authorized THEN 1 ELSE 0,
                                              1, 1, Some(validation_result))),
                       table |-> store_in_cache(table, "FCA_BANK_VALIDATION", cache_key,
                                                bank_data[1], CACHE_TTL_HOURS, now),
                       source |-> "api", stored |-> TRUE]
             ELSE [outcome |-> Returned(BankResult(0, 1, 1, Some(NotFoundResult(bank_name)))),
                   table |-> store_in_cache(table, "FCA_BANK_VALIDATION", cache_key,
                                            NotFoundResult(bank_name), 6, now),
                   source |-> "api", stored |-> TRUE]
        ELSE LET cached_result == load_from_cache(table, "FCA_BANK_VALIDATION", cache_key)
             IN  [outcome |->
                     Returned(BankResult(IF CachedAuthorized(cached_result) THEN 1 ELSE 0,
                                         0, 0, cached_result)),
                  table |-> table, source |-> "cache", stored |-> FALSE]

InitCollector ==
    /\ pc = "collector"
    /\ IdleParse
    /\ IdleClass
    /\ IdleRetry
    /\ ReliableAudit
    /\ IdlePipe
    /\ IdleOuter

\* what a finished run did: when, for which term or bank it called the API,
\* stored an item, read the cache, and what it returned
RunRecord(kind, at, api_for, stored_for, cached_for, outcome) ==
    [kind |-> kind, at |-> at, api_for |-> api_for, stored_for |-> stored_for,
     cached_for |-> cached_for, outcome |-> outcome]

\* lines 52-54: a scheduled event starts collect_all_trade_finance_firms
StartCollection ==
    /\ pc = "collector"
    /\ collection = <<>>
    /\ Len(history) < MaxRuns
    /\ collection' = <<[index |-> 0, results |-> EmptyResults,
                        api_for |-> {}, stored_for |-> {}, cached_for |-> {}]>>
    /\ UNCHANGED <<pc, clock, cache_items, history, coreVarsOfDocument>>

\* lines 120-153: the next search term of the loop
CollectTerm(answer, put) ==
    /\ collection # <<>>
    /\ collection[1].index < Len(SearchTerms)
    /\ LET run == collection[1]
           search_term == SearchTerms[run.index + 1]
           step == SearchStep(run.results, search_term, answer, put, cache_items, clock)
       IN  /\ cache_items' = step.table
           /\ collection' =
                 <<[index |-> run.index + 1,
                    results |-> step.results,
                    api_for |-> run.api_for \cup
                                (IF step.source = "api" THEN {search_term} ELSE {}),
                    stored_for |-> run.stored_for \cup
                                   (IF step.stored THEN {search_term} ELSE {}),
                    cached_for |-> run.cached_for \cup
                                   (IF step.source = "cache" THEN {search_term} ELSE {})]>>
    /\ UNCHANGED <<pc, clock, history, coreVarsOfDocument>>

\* line 156: the collection returns its results
FinishCollection ==
    /\ collection # <<>>
    /\ collection[1].index = Len(SearchTerms)
    /\ history' = Append(history,
                         RunRecord("collection", clock, collection[1].api_for,
                                   collection[1].stored_for, collection[1].cached_for,
                                   Returned(collection[1].results)))
    /\ collection' = <<>>
    /\ UNCHANGED <<pc, clock, cache_items, coreVarsOfDocument>>

\* lines 55-57: a request with a bank name runs validate_specific_bank
ValidateBank(bank_name, answer, put) ==
    /\ pc = "collector"
    /\ collection = <<>>
    /\ Len(history) < MaxRuns
    /\ LET run == validate_specific_bank(cache_items, bank_name, answer, put, clock)
       IN  /\ cache_items' = run.table
           /\ history' = Append(history,
                                RunRecord("validation", clock,
                                          IF run.source = "api" THEN {bank_name} ELSE {},
                                          IF run.stored THEN {bank_name} ELSE {},
                                          IF run.source = "cache" THEN {bank_name} ELSE {},
                                          run.outcome))
    /\ UNCHANGED <<pc, clock, collection, coreVarsOfDocument>>

\* time passes between two runs: an hour, half a day, a day, or an hour more
TickHours == {1, 12, 13, 24, 25}
Tick(hours) ==
    /\ pc = "collector"
    /\ collection = <<>>
    /\ history # <<>>
    /\ clock = history[Len(history)].at
    /\ clock + hours <= MaxClock
    /\ clock' = clock + hours
    /\ UNCHANGED <<pc, cache_items, collection, history, coreVarsOfDocument>>

NextCollector ==
    \/ StartCollection
    \/ \E answer \in SearchAnswers, put \in CachePuts : CollectTerm(answer, put)
    \/ FinishCollection
    \/ \E bank_name \in Banks, answer \in BankAnswers, put \in CachePuts :
          ValidateBank(bank_name, answer, put)
    \/ \E hours \in TickHours : Tick(hours)
SpecCollector == InitCollector /\ [][NextCollector]_vars

\* the runs of the history, by kind
Collections == {i \in DOMAIN history : history[i].kind = "collection"}
Validations == {i \in DOMAIN history : history[i].kind = "validation"}

\* C34: when a collection stored the results of a search term in the cache
\* and a later collection runs less than 24 hours after it, the later one
\* makes no API call for the term and adds nothing to api_calls and
\* cache_updates for it, and its results hold the term's firms as before.
C34_FreshTermServedFromCache ==
    \A i, j \in Collections :
        (i < j /\ history[j].at - history[i].at < 24) =>
            \A t \in history[i].stored_for :
                /\ t \notin history[j].api_for
                /\ t \notin history[j].stored_for
                /\ t \in history[j].cached_for
                /\ t \in DOMAIN history[j].outcome.val.search_results
                /\ history[j].outcome.val.search_results[t] =
                      history[i].outcome.val.search_results[t]

\* the verdict of a validation run
Verdict(i) ==
    LET bank_validation == history[i].outcome.val.bank_validation
    IN  [is_authorized |-> IF bank_validation = None THEN None
                           ELSE PyGet(bank_validation[1], "is_authorized"),
         risk_level |-> IF bank_validation = None THEN None
                        ELSE PyGet(bank_validation[1], "risk_level"),
         total_firms |-> history[i].outcome.val.total_firms]

\* C35: when validate_specific_bank fetched a bank from the API and cached
\* it, and a later call for the same bank is answered from the cache, the
\* later call returns the same is_authorized, risk_level and total_firms.
C35_CachedVerdictSameAsFresh ==
    \A i, j \in Validations :
        (/\ i < j
         /\ history[i].stored_for # {}
         /\ history[j].cached_for = history[i].stored_for
         /\ \A k \in Validations : (i < k /\ k < j) => history[k].stored_for # history[i].stored_for)
        => Verdict(j) = Verdict(i)

====
